---------------------------- MODULE Spec2Model ----------------------------
(***************************************************************************)
(* Role-scoped access and data partitioning of the contract lifecycle      *)
(* application: the scoped list services (vendors, projects, agreements),  *)
(* the invitation lifecycle and the membership resolver.                   *)
(*                                                                         *)
(* The row store is modelled as sets of rows.  A SQL NULL / JS null /      *)
(* undefined column is the string NULL for text columns and 0 for numeric  *)
(* ones (ids created by the store start at 1).                             *)
(***************************************************************************)
EXTENDS Integers, Sequences, FiniteSets, TLC

\* ------------------------------------------------------------------ bounds
\* Rows the scoped tables hold together.
MaxRows == 2

\* branch_invites rows, the accepted one of the first branch admin included.
MaxInvites == 2

\* Row-store / auth calls that fail for a transient reason (network, backend).
MaxFailures == 1

\* Readings of the wall clock that are told apart (accepted_at values).
MaxClock == 3

\* Offices added through the office manager.
MaxOffices == 1

\* Files of one upload batch.
MaxBatch == 2

\* Objects the vendor document bucket holds.
MaxObjects == 4

\* ------------------------------------------------------------ value domains
NULL == "null"

\* JS truthiness of a string-or-null value: null, undefined and '' are falsy.
Truthy(x) == x # NULL /\ x # ""

\* a ?? b on a string-or-null value.
Coalesce(x, d) == IF x = NULL THEN d ELSE x

\* a || b on a string-or-null value.
OrElse(x, d) == IF Truthy(x) THEN x ELSE d

Orgs == {"o1", "o2"}

\* branch_offices rows: id -> organization_id.
BranchOrg == [b1 |-> "o1", b2 |-> "o1", b3 |-> "o2"]

Branches == DOMAIN BranchOrg

BranchesOf(o) == {b \in Branches : BranchOrg[b] = o}

Scopes == {"all", "organization", "branch", NULL}

ProjectStatusInputs == {"active", "completed"}

VARIABLES
  vendors,      \* table vendors
  projects,     \* table projects
  agreements,   \* table agreements
  nextRowId,    \* next id / created_at the store hands out
  listed        \* the last list a view received:
                \*   [kind, organizationId, branchOfficeId, scope, statuses,
                \*    projectId, role, rows]

VARIABLES
  authUsers,     \* auth.users: the authentication principals [id, email]
  organizations, \* table organizations [id, user_id]
  members,       \* table organization_members
  invites,       \* table branch_invites
  nextMemberId,  \* next organization_members.id
  clock,         \* wall clock, read by markInviteAccepted
  failures,      \* transient failures so far
  dupSignUp,     \* what auth.signUp answers for an email that is registered
  screens        \* BranchInvite component state, one per open invite link

scopeVars == <<vendors, projects, agreements, nextRowId, listed>>

VARIABLES
  authSession,   \* the signed-in user id the supabase client holds, or NULL
  ctx,           \* AuthProvider state: session, user, organization,
                 \*   memberRole, branchOfficeId, loading
  initPc,        \* runInit: "getSession", "hydrating" or "done"
  hydrations,    \* hydrateMembership calls in flight, one per slot
  signUpProc,    \* AuthContext.signUp in flight
  profileProc    \* completeOrganizationProfile in flight

storeVars == <<authUsers, organizations, members, invites, nextMemberId,
               clock, failures, dupSignUp>>

clientVars == <<authSession, ctx, initPc, hydrations, signUpProc, profileProc>>

VARIABLES
  templates,     \* table templates
  vendorDocuments,  \* column vendors.documents, by vendor id
  agreementContent, \* the content columns of agreements, by agreement id
  newOffices,    \* branch_offices rows created through the office manager
  outbox,        \* invite links handed to the send-branch-invite function
  storage,       \* objects uploaded to the vendor document bucket
  principal,     \* what useAuth() gives the mounted view: organization,
                 \*   memberRole, branchOfficeId
  ui             \* state of the mounted view component

formVars == <<templates, vendorDocuments, agreementContent, newOffices,
              outbox, storage, principal, ui>>

vars == <<scopeVars, storeVars, screens, clientVars, formVars>>

\* No resource view is mounted.
FormsAbsent ==
  /\ templates = {}
  /\ vendorDocuments = <<>>
  /\ agreementContent = <<>>
  /\ newOffices = {}
  /\ outbox = {}
  /\ storage = {}
  /\ principal = "unused"
  /\ ui = "unused"

\* No AuthProvider is mounted: the specifications that do not exercise the
\* provider keep its state at this value.
ClientAbsent ==
  /\ authSession = "null"
  /\ ctx = "unused"
  /\ initPc = "done"
  /\ hydrations = "unused"
  /\ signUpProc = "unused"
  /\ profileProc = "unused"

\* ----------------------------------------------------------- row store
RECURSIVE OrderByCreatedDesc(_)
\* .order('created_at', { ascending: false })
OrderByCreatedDesc(S) ==
  IF S = {} THEN <<>>
  ELSE LET m == CHOOSE r \in S : \A q \in S : q.created_at <= r.created_at
       IN  <<m>> \o OrderByCreatedDesc(S \ {m})

Range(s) == {s[i] : i \in DOMAIN s}

RowCount ==
  Cardinality(vendors) + Cardinality(projects) + Cardinality(agreements)
    + Cardinality(templates)

\* ------------------------------------------------------- vendor service
\* fetchVendors with the default branch filter written as a plain equality,
\* the way the agreements list filters: organization-wide rows are lost.
fetchVendorsBranchEqOnly(organizationId, branchOfficeId, scope) ==
  LET base == {r \in vendors : r.organization_id = organizationId}
      query ==
        IF scope = "branch"
        THEN IF Truthy(branchOfficeId)
             THEN {r \in base : r.branch_office_id = branchOfficeId}
             ELSE {r \in base : r.branch_office_id # NULL}
        ELSE IF scope = "organization"
        THEN {r \in base : r.branch_office_id = NULL}
        ELSE IF Truthy(branchOfficeId) /\ scope # "all"
        THEN {r \in base : r.branch_office_id = branchOfficeId}
        ELSE base
  IN  OrderByCreatedDesc(query)

fetchVendors(organizationId, branchOfficeId, scope) ==
  LET base == {r \in vendors : r.organization_id = organizationId}
      query ==
        IF scope = "branch"
        THEN IF Truthy(branchOfficeId)
             THEN {r \in base : r.branch_office_id = branchOfficeId}
             ELSE {r \in base : r.branch_office_id # NULL}
        ELSE IF scope = "organization"
        THEN {r \in base : r.branch_office_id = NULL}
        ELSE IF Truthy(branchOfficeId) /\ scope # "all"
        THEN {r \in base : r.branch_office_id = branchOfficeId
                           \/ r.branch_office_id = NULL}
        ELSE base
  IN  OrderByCreatedDesc(query)

createVendor(organizationId, branchOfficeId) ==
  /\ vendors' = vendors \cup
       {[id |-> nextRowId, created_at |-> nextRowId,
         organization_id |-> organizationId,
         branch_office_id |-> Coalesce(branchOfficeId, NULL)]}
  /\ nextRowId' = nextRowId + 1

\* ------------------------------------------------------ project service
\* fetchProjects with the or-filter of the default scope taken as an
\* alternative to the whole query instead of one of its conjuncts.
fetchProjectsLooseOr(organizationId, branchOfficeId, scope, statuses) ==
  LET base == {r \in projects : r.organization_id = organizationId}
      query ==
        IF scope = "branch"
        THEN IF Truthy(branchOfficeId)
             THEN {r \in base : r.branch_office_id = branchOfficeId}
             ELSE {r \in base : r.branch_office_id # NULL}
        ELSE IF scope = "organization"
        THEN {r \in base : r.branch_office_id = NULL}
        ELSE IF Truthy(branchOfficeId) /\ scope # "all"
        THEN {r \in base : r.branch_office_id = branchOfficeId}
               \cup {r \in projects : r.branch_office_id = NULL}
        ELSE base
      filtered ==
        IF statuses # {} THEN {r \in query : r.status \in statuses} ELSE query
  IN  OrderByCreatedDesc(filtered)

fetchProjects(organizationId, branchOfficeId, scope, statuses) ==
  LET base == {r \in projects : r.organization_id = organizationId}
      query ==
        IF scope = "branch"
        THEN IF Truthy(branchOfficeId)
             THEN {r \in base : r.branch_office_id = branchOfficeId}
             ELSE {r \in base : r.branch_office_id # NULL}
        ELSE IF scope = "organization"
        THEN {r \in base : r.branch_office_id = NULL}
        ELSE IF Truthy(branchOfficeId) /\ scope # "all"
        THEN {r \in base : r.branch_office_id = branchOfficeId
                           \/ r.branch_office_id = NULL}
        ELSE base
      filtered ==
        IF statuses # {} THEN {r \in query : r.status \in statuses} ELSE query
  IN  OrderByCreatedDesc(filtered)

createProject(organizationId, branchOfficeId, status) ==
  /\ projects' = projects \cup
       {[id |-> nextRowId, created_at |-> nextRowId,
         organization_id |-> organizationId,
         branch_office_id |-> Coalesce(branchOfficeId, NULL),
         status |-> Coalesce(status, "active")]}
  /\ nextRowId' = nextRowId + 1

\* ---------------------------------------------------- agreement service
\* options.branchOfficeId / options.projectId: NULL / 0 when not given.
fetchAgreementsForOrganization(organizationId, branchOfficeId, projectId) ==
  IF ~Truthy(organizationId) THEN <<>>
  ELSE LET base == {r \in agreements : r.organization_id = organizationId}
           byBranch ==
             IF Truthy(branchOfficeId)
             THEN {r \in base : r.branch_office_id = branchOfficeId}
             ELSE base
           byProject ==
             IF projectId # 0
             THEN {r \in byBranch : r.project_id = projectId}
             ELSE byBranch
       IN  OrderByCreatedDesc(byProject)

\* upsert(payload, { onConflict: 'id' }): a new id inserts, a known id
\* rewrites the row's columns and keeps its created_at.
upsertAgreementForOrganization(id, organizationId, branchOfficeId, projectId) ==
  LET old == {r \in agreements : r.id = id}
      created == IF old = {} THEN id ELSE (CHOOSE r \in old : TRUE).created_at
  IN  /\ agreements' = (agreements \ old) \cup
           {[id |-> id, created_at |-> created,
             organization_id |-> organizationId,
             branch_office_id |-> Coalesce(branchOfficeId, NULL),
             project_id |-> projectId]}
      /\ nextRowId' = IF old = {} THEN nextRowId + 1 ELSE nextRowId

\* --------------------------------------------------------- principals
\* What the auth context can hold for a member of organization o:
\* an org_admin has no branch, a branch member has a branch of o or (the
\* locked state) none.
Principals(o) ==
  {[role |-> "org_admin", branchOfficeId |-> NULL]} \cup
  {[role |-> r, branchOfficeId |-> b] :
     r \in {"branch_admin", "branch_user"}, b \in BranchesOf(o) \cup {NULL}}

\* App.refreshAgreements
refreshAgreementsFilter(role, branchOfficeId) ==
  IF role # "org_admin" /\ Truthy(branchOfficeId) THEN branchOfficeId ELSE NULL

\* ------------------------------------------------------------ actions
\* A list is compared with the tables it was read from: the tables are
\* written while no view holds a list.
NoList ==
  [kind |-> "none", organizationId |-> NULL, branchOfficeId |-> NULL,
   scope |-> NULL, statuses |-> {}, projectId |-> 0, role |-> NULL,
   rows |-> <<>>]

InitScope ==
  /\ vendors = {}
  /\ projects = {}
  /\ agreements = {}
  /\ nextRowId = 1
  /\ listed = NoList
  /\ authUsers = {}
  /\ organizations = {}
  /\ members = {}
  /\ invites = {}
  /\ nextMemberId = 1
  /\ clock = 1
  /\ failures = 0
  /\ dupSignUp = "error"
  /\ screens = [s \in {"s1", "s2"} |-> "unused"]
  /\ ClientAbsent
  /\ FormsAbsent

CreateVendor ==
  /\ listed = NoList
  /\ RowCount < MaxRows
  /\ \E o \in Orgs : \E b \in BranchesOf(o) \cup {NULL} : createVendor(o, b)
  /\ UNCHANGED <<formVars, projects, agreements, listed, storeVars, screens, clientVars>>

CreateProject ==
  /\ listed = NoList
  /\ RowCount < MaxRows
  /\ \E o \in Orgs : \E b \in BranchesOf(o) \cup {NULL} :
       \E st \in ProjectStatusInputs \cup {NULL} : createProject(o, b, st)
  /\ UNCHANGED <<formVars, vendors, agreements, listed, storeVars, screens, clientVars>>

\* App.handleSaveAgreement: a new agreement, or a saved one opened again.
SaveAgreement ==
  /\ listed = NoList
  /\ \E o \in Orgs : \E b \in BranchesOf(o) \cup {NULL} :
       \E pid \in {0} \cup {p.id : p \in {q \in projects : q.organization_id = o}} :
         \E id \in {nextRowId} \cup {a.id : a \in {q \in agreements : q.organization_id = o}} :
           /\ id = nextRowId => RowCount < MaxRows
           /\ upsertAgreementForOrganization(id, o, b, pid)
  /\ UNCHANGED <<formVars, vendors, projects, listed, storeVars, screens, clientVars>>

ListVendors ==
  /\ listed = NoList
  /\ \E o \in Orgs : \E b \in Branches \cup {NULL} : \E sc \in Scopes :
       listed' = [kind |-> "vendors", organizationId |-> o,
                  branchOfficeId |-> b, scope |-> sc, statuses |-> {},
                  projectId |-> 0, role |-> NULL,
                  rows |-> fetchVendors(o, b, sc)]
  /\ UNCHANGED <<formVars, vendors, projects, agreements, nextRowId, storeVars, screens, clientVars>>

ListProjects ==
  /\ listed = NoList
  /\ \E o \in Orgs : \E b \in Branches \cup {NULL} : \E sc \in Scopes :
       \E sts \in {{}, {"active"}} :
         listed' = [kind |-> "projects", organizationId |-> o,
                    branchOfficeId |-> b, scope |-> sc, statuses |-> sts,
                    projectId |-> 0, role |-> NULL,
                    rows |-> fetchProjects(o, b, sc, sts)]
  /\ UNCHANGED <<formVars, vendors, projects, agreements, nextRowId, storeVars, screens, clientVars>>

\* App.refreshAgreements for a signed-in member of organization o.
RefreshAgreements ==
  /\ listed = NoList
  /\ \E o \in Orgs : \E p \in Principals(o) :
       LET filter == refreshAgreementsFilter(p.role, p.branchOfficeId)
       IN  listed' = [kind |-> "agreements", organizationId |-> o,
                      branchOfficeId |-> p.branchOfficeId, scope |-> NULL,
                      statuses |-> {}, projectId |-> 0, role |-> p.role,
                      rows |-> fetchAgreementsForOrganization(o, filter, 0)]
  /\ UNCHANGED <<formVars, vendors, projects, agreements, nextRowId, storeVars, screens, clientVars>>

\* fetchAgreementsForOrganization called with any organization id (the
\* empty string included), branch filter and project filter.
ListAgreements ==
  /\ listed = NoList
  /\ \E o \in Orgs \cup {""} : \E b \in Branches \cup {NULL} :
       \E pid \in {0} \cup {p.id : p \in projects} :
         listed' = [kind |-> "agreements", organizationId |-> o,
                    branchOfficeId |-> b, scope |-> NULL, statuses |-> {},
                    projectId |-> pid, role |-> NULL,
                    rows |-> fetchAgreementsForOrganization(o, b, pid)]
  /\ UNCHANGED <<formVars, vendors, projects, agreements, nextRowId, storeVars, screens, clientVars>>

\* The view that held the list unmounts or reloads: the list is dropped.
ReleaseList ==
  /\ listed # NoList
  /\ listed' = NoList
  /\ UNCHANGED <<formVars, vendors, projects, agreements, nextRowId, storeVars, screens, clientVars>>

NextScope ==
  \/ CreateVendor
  \/ CreateProject
  \/ SaveAgreement
  \/ ListVendors
  \/ ListProjects
  \/ RefreshAgreements
  \/ ListAgreements
  \/ ReleaseList

SpecScope == InitScope /\ [][NextScope]_vars

\* ================================================================
\* Identity: auth principals, organizations, memberships, invites
\* ================================================================
UserIds == <<"u1", "u2", "u3", "u4">>

\* The id an obfuscated sign-up answer carries: no row of auth.users has it.
FakeUserId == "u-obfuscated"

AdminEmail == "admin@hq"

BranchAdminEmail == "bob@branch"

InviteEmails == {"ann@branch"}

InviteIds == <<"i1", "i2", "i3">>

\* crypto.randomUUID(): a fresh token per invite.
InviteTokens == <<"t1", "t2", "t3">>

DupSignUpModes == {"error", "existing", "obfuscated"}

MsgNotFound == "This invitation could not be found or has been revoked."
MsgAlreadyAccepted == "This invitation has already been accepted."
MsgPasswordShort == "Password must be at least 6 characters."
MsgPasswordMismatch == "Passwords do not match."
MsgDuplicateUser == "User already registered"
MsgBackend == "err.message"

\* password.length < 6
MinPasswordLength == 6

PasswordLengths == {5, 6}

\* "no row" answers of maybeSingle(), shaped like the rows.
NoInvite ==
  [id |-> NULL, invite_token |-> NULL, organization_id |-> NULL,
   branch_office_id |-> NULL, email |-> NULL, role |-> NULL,
   department |-> NULL, status |-> NULL, user_id |-> NULL, accepted_at |-> 0]

NoMember ==
  [id |-> 0, user_id |-> NULL, organization_id |-> NULL, role |-> NULL,
   branch_office_id |-> NULL, department |-> NULL]

Tick == IF clock < MaxClock THEN clock + 1 ELSE clock

\* A call to the row store or the auth service fails for a transient reason.
Fail ==
  /\ failures < MaxFailures
  /\ failures' = failures + 1

\* ------------------------------------------------ organizationService
\* .eq('user_id', userId).maybeSingle(): an error when several rows match.
fetchMembershipForUser(userId) ==
  LET rows == {m \in members : m.user_id = userId}
  IN  IF Cardinality(rows) > 1
      THEN [error |-> TRUE, organization |-> NULL, member |-> NoMember]
      ELSE IF rows = {}
      THEN [error |-> FALSE, organization |-> NULL, member |-> NoMember]
      ELSE LET data == CHOOSE m \in rows : TRUE
           IN  [error |-> FALSE, organization |-> data.organization_id,
                member |-> data]

\* ensureMembership as a plain insert: no conflict target.
ensureMembershipInsertOnly(userId, organizationId, role, branchOfficeId, department) ==
  /\ members' = members \cup
       {[id |-> nextMemberId, user_id |-> userId,
         organization_id |-> organizationId, role |-> role,
         branch_office_id |-> Coalesce(branchOfficeId, NULL),
         department |-> Coalesce(department, NULL)]}
  /\ nextMemberId' = nextMemberId + 1

\* upsert(..., { onConflict: 'user_id,organization_id' })
ensureMembership(userId, organizationId, role, branchOfficeId, department) ==
  LET old == {m \in members : m.user_id = userId
                              /\ m.organization_id = organizationId}
      id == IF old = {} THEN nextMemberId ELSE (CHOOSE m \in old : TRUE).id
  IN  /\ members' = (members \ old) \cup
           {[id |-> id, user_id |-> userId,
             organization_id |-> organizationId, role |-> role,
             branch_office_id |-> Coalesce(branchOfficeId, NULL),
             department |-> Coalesce(department, NULL)]}
      /\ nextMemberId' = IF old = {} THEN nextMemberId + 1 ELSE nextMemberId

\* organization_members.user_id references auth.users (id).
MemberForeignKeysHold(userId, organizationId) ==
  /\ \E u \in authUsers : u.id = userId
  /\ \E o \in organizations : o.id = organizationId

NewInvite(organizationId, branchOfficeId, email, role, department) ==
  [id |-> InviteIds[Cardinality(invites) + 1],
   invite_token |-> InviteTokens[Cardinality(invites) + 1],
   organization_id |-> organizationId, branch_office_id |-> branchOfficeId,
   email |-> email, role |-> role, department |-> department,
   status |-> "pending", user_id |-> NULL, accepted_at |-> 0]

createBranchInvite(organizationId, branchOfficeId, email, role, department) ==
  invites' = invites \cup
    {NewInvite(organizationId, branchOfficeId, email, role,
               OrElse(department, NULL))}

createBranchUserAccount(organizationId, branchOfficeId, email, department) ==
  invites' = invites \cup
    {NewInvite(organizationId, branchOfficeId, email, "branch_user", department)}

\* .eq('invite_token', token).maybeSingle(); invite_token is unique.
fetchInviteByToken(token) ==
  LET rows == {i \in invites : i.invite_token = token}
  IN  IF rows = {} THEN NoInvite ELSE CHOOSE i \in rows : TRUE

\* update({status, user_id, accepted_at}).eq('id', inviteId)
markInviteAccepted(inviteId, userId) ==
  /\ invites' = {IF i.id = inviteId
                 THEN [i EXCEPT !.status = "accepted", !.user_id = userId,
                                !.accepted_at = clock]
                 ELSE i : i \in invites}
  /\ clock' = Tick

\* -------------------------------------------- invite creation (views)
\* OfficeManager.handleCreateInvite: the org admin invites a branch admin
\* to an office of the organization.
HandleCreateInviteTo(e) ==
  /\ Cardinality(invites) < MaxInvites
  /\ \E o \in organizations : \E b \in BranchesOf(o.id) :
       \/ createBranchInvite(o.id, b, e, "branch_admin", NULL)
          /\ UNCHANGED failures
       \/ Fail /\ UNCHANGED invites
  /\ UNCHANGED <<formVars, scopeVars, clientVars, authUsers, organizations, members, nextMemberId,
                 clock, dupSignUp, screens>>

HandleCreateInvite == \E e \in InviteEmails : HandleCreateInviteTo(e)

\* BranchUserManager.handleCreate: a branch admin adds a branch user; name,
\* department and email are required.
HandleCreateBranchUser ==
  /\ Cardinality(invites) < MaxInvites
  /\ \E m \in members : \E e \in InviteEmails : \E dept \in {"", "Finance"} :
       /\ m.role = "branch_admin"
       /\ Truthy(m.branch_office_id)
       /\ IF ~Truthy(dept)
          THEN UNCHANGED <<invites, failures>>
          ELSE \/ createBranchUserAccount(m.organization_id, m.branch_office_id,
                                          e, dept)
                  /\ UNCHANGED failures
               \/ Fail /\ UNCHANGED invites
  /\ UNCHANGED <<formVars, scopeVars, clientVars, authUsers, organizations, members, nextMemberId,
                 clock, dupSignUp, screens>>

\* Revocation: the explicit status flip pending -> revoked.
RevokeInvite ==
  /\ \E i \in invites :
       /\ i.status = "pending"
       /\ invites' = (invites \ {i}) \cup {[i EXCEPT !.status = "revoked"]}
  /\ UNCHANGED <<formVars, scopeVars, clientVars, authUsers, organizations, members, nextMemberId,
                 clock, failures, dupSignUp, screens>>

\* ------------------------------------------------ BranchInvite component
Screens == {"s1", "s2"}

ClosedScreen ==
  [pc |-> "closed", token |-> NULL, loading |-> TRUE, inviteError |-> NULL,
   inviteDetails |-> NoInvite, accepting |-> FALSE, success |-> FALSE,
   userId |-> NULL]

\* App mounts BranchInvite for the hash #/invite/<token>; the effect starts
\* loadInvite.
OpenInviteLink(s, t) ==
  /\ screens[s].pc = "closed"
  /\ screens' = [screens EXCEPT ![s] =
       [ClosedScreen EXCEPT !.pc = "loadInvite", !.token = t]]
  /\ UNCHANGED <<formVars, scopeVars, clientVars, storeVars>>

OpenInvite(s) ==
  \E t \in {i.invite_token : i \in invites} \cup {"garbage"} : OpenInviteLink(s, t)

\* loadInvite, after fetchInviteByToken answered.
loadInviteResult(invite) ==
  IF invite = NoInvite
  THEN [inviteError |-> MsgNotFound, inviteDetails |-> NoInvite]
  ELSE IF invite.status = "accepted"
  THEN [inviteError |-> MsgAlreadyAccepted, inviteDetails |-> NoInvite]
  ELSE [inviteError |-> NULL, inviteDetails |-> invite]

LoadInvite(s) ==
  /\ screens[s].pc = "loadInvite"
  /\ \/ /\ Fail
        /\ screens' = [screens EXCEPT ![s].pc = "idle", ![s].loading = FALSE,
                                      ![s].inviteError = MsgBackend]
     \/ /\ UNCHANGED failures
        /\ LET r == loadInviteResult(fetchInviteByToken(screens[s].token))
           IN  screens' = [screens EXCEPT ![s].pc = "idle",
                                          ![s].loading = FALSE,
                                          ![s].inviteError = r.inviteError,
                                          ![s].inviteDetails = r.inviteDetails]
  /\ UNCHANGED <<formVars, scopeVars, clientVars, authUsers, organizations, members, invites,
                 nextMemberId, clock, dupSignUp>>

\* The form is rendered once an invite is loaded and until success; its
\* button is disabled while accepting.
FormShown(s) ==
  /\ screens[s].pc = "idle"
  /\ screens[s].inviteDetails # NoInvite
  /\ ~screens[s].success
  /\ ~screens[s].accepting

\* handleAccept without the test of the password's length.
HandleAcceptWithMismatchOnly(s, len, confirmed) ==
  /\ FormShown(s)
  /\ screens' =
       IF ~confirmed
       THEN [screens EXCEPT ![s].inviteError = MsgPasswordMismatch]
       ELSE [screens EXCEPT ![s].accepting = TRUE, ![s].inviteError = NULL,
                            ![s].pc = "signUp"]
  /\ UNCHANGED <<formVars, scopeVars, clientVars, storeVars>>

\* handleAccept up to the first await, for a password of length len whose
\* confirmation matches or not.
HandleAcceptWith(s, len, confirmed) ==
  /\ FormShown(s)
  /\ screens' =
       IF len < MinPasswordLength
       THEN [screens EXCEPT ![s].inviteError = MsgPasswordShort]
       ELSE IF ~confirmed
       THEN [screens EXCEPT ![s].inviteError = MsgPasswordMismatch]
       ELSE [screens EXCEPT ![s].accepting = TRUE, ![s].inviteError = NULL,
                            ![s].pc = "signUp"]
  /\ UNCHANGED <<formVars, scopeVars, clientVars, storeVars>>

HandleAccept(s) ==
  \E len \in PasswordLengths : \E confirmed \in BOOLEAN :
    HandleAcceptWith(s, len, confirmed)

\* catch (err) { setInviteError(message) } finally { setAccepting(false) }
AcceptFailed(s, message) ==
  screens' = [screens EXCEPT ![s].pc = "idle", ![s].accepting = FALSE,
                             ![s].inviteError = message]

\* supabase.auth.signUp({ email: inviteDetails.email, ... }) answered.
AcceptSignUp(s) ==
  /\ screens[s].pc = "signUp"
  /\ LET email == screens[s].inviteDetails.email
         known == {u \in authUsers : u.email = email}
     IN  \/ /\ Fail
            /\ AcceptFailed(s, MsgBackend)
            /\ UNCHANGED authUsers
         \/ /\ known = {}
            /\ Cardinality(authUsers) < Len(UserIds)
            /\ LET id == UserIds[Cardinality(authUsers) + 1]
               IN  /\ authUsers' = authUsers \cup {[id |-> id, email |-> email]}
                   /\ screens' = [screens EXCEPT ![s].pc = "ensureMembership",
                                                 ![s].userId = id]
            /\ UNCHANGED failures
         \/ /\ known # {}
            /\ dupSignUp = "error"
            /\ AcceptFailed(s, MsgDuplicateUser)
            /\ UNCHANGED <<authUsers, failures>>
         \/ /\ known # {}
            /\ dupSignUp = "existing"
            /\ screens' = [screens EXCEPT ![s].pc = "ensureMembership",
                             ![s].userId = (CHOOSE u \in known : TRUE).id]
            /\ UNCHANGED <<authUsers, failures>>
         \/ /\ known # {}
            /\ dupSignUp = "obfuscated"
            /\ screens' = [screens EXCEPT ![s].pc = "ensureMembership",
                                          ![s].userId = FakeUserId]
            /\ UNCHANGED <<authUsers, failures>>
  /\ UNCHANGED <<formVars, scopeVars, clientVars, organizations, members, invites, nextMemberId,
                 clock, dupSignUp>>

\* The acceptance step that always writes a branch_admin membership.
AcceptEnsureMembershipAdminOnly(s) ==
  /\ screens[s].pc = "ensureMembership"
  /\ LET d == screens[s].inviteDetails
         userId == screens[s].userId
     IN  \/ /\ Fail
            /\ AcceptFailed(s, MsgBackend)
            /\ UNCHANGED <<members, nextMemberId>>
         \/ /\ ~MemberForeignKeysHold(userId, d.organization_id)
            /\ AcceptFailed(s, MsgBackend)
            /\ UNCHANGED <<members, nextMemberId, failures>>
         \/ /\ MemberForeignKeysHold(userId, d.organization_id)
            /\ ensureMembership(userId, d.organization_id, "branch_admin",
                 d.branch_office_id, OrElse(d.department, NULL))
            /\ screens' = [screens EXCEPT ![s].pc = "markInvite"]
            /\ UNCHANGED failures
  /\ UNCHANGED <<formVars, scopeVars, clientVars, authUsers, organizations, invites, clock, dupSignUp>>

\* await ensureMembership({ userId, ...inviteDetails }) answered.
AcceptEnsureMembership(s) ==
  /\ screens[s].pc = "ensureMembership"
  /\ LET d == screens[s].inviteDetails
         userId == screens[s].userId
     IN  \/ /\ Fail
            /\ AcceptFailed(s, MsgBackend)
            /\ UNCHANGED <<members, nextMemberId>>
         \/ /\ ~MemberForeignKeysHold(userId, d.organization_id)
            /\ AcceptFailed(s, MsgBackend)
            /\ UNCHANGED <<members, nextMemberId, failures>>
         \/ /\ MemberForeignKeysHold(userId, d.organization_id)
            /\ ensureMembership(userId, d.organization_id,
                 IF d.role = "branch_user" THEN "branch_user" ELSE "branch_admin",
                 d.branch_office_id, OrElse(d.department, NULL))
            /\ screens' = [screens EXCEPT ![s].pc = "markInvite"]
            /\ UNCHANGED failures
  /\ UNCHANGED <<formVars, scopeVars, clientVars, authUsers, organizations, invites, clock, dupSignUp>>

\* await markInviteAccepted(inviteDetails.id, userId) answered.
AcceptMarkInvite(s) ==
  /\ screens[s].pc = "markInvite"
  /\ \/ /\ Fail
        /\ AcceptFailed(s, MsgBackend)
        /\ UNCHANGED <<invites, clock>>
     \/ /\ markInviteAccepted(screens[s].inviteDetails.id, screens[s].userId)
        /\ screens' = [screens EXCEPT ![s].pc = "idle", ![s].accepting = FALSE,
                                      ![s].success = TRUE]
        /\ UNCHANGED failures
  /\ UNCHANGED <<formVars, scopeVars, clientVars, authUsers, organizations, members, nextMemberId,
                 dupSignUp>>

\* The invite link is left or reloaded: the component state is gone.
CloseInvite(s) ==
  /\ screens[s].pc = "idle"
  /\ screens' = [screens EXCEPT ![s] = ClosedScreen]
  /\ UNCHANGED <<formVars, scopeVars, clientVars, storeVars>>

\* ----------------------------------------------------- specifications
ScopeTablesEmpty ==
  /\ vendors = {}
  /\ projects = {}
  /\ agreements = {}
  /\ nextRowId = 1
  /\ listed = NoList

\* An organization whose admin signed up (principal, organization and
\* org_admin membership) and whose first branch admin accepted the invite
\* to branch b1.
StoreWithOrganization ==
  /\ authUsers = {[id |-> "u1", email |-> AdminEmail],
                  [id |-> "u2", email |-> BranchAdminEmail]}
  /\ organizations = {[id |-> "o1", user_id |-> "u1"]}
  /\ members = {[id |-> 1, user_id |-> "u1", organization_id |-> "o1",
                 role |-> "org_admin", branch_office_id |-> NULL,
                 department |-> NULL],
                [id |-> 2, user_id |-> "u2", organization_id |-> "o1",
                 role |-> "branch_admin", branch_office_id |-> "b1",
                 department |-> NULL]}
  /\ invites = {[id |-> "i1", invite_token |-> "t1",
                 organization_id |-> "o1", branch_office_id |-> "b1",
                 email |-> BranchAdminEmail, role |-> "branch_admin",
                 department |-> NULL, status |-> "accepted",
                 user_id |-> "u2", accepted_at |-> 1]}
  /\ nextMemberId = 3
  /\ clock = 2
  /\ failures = 0

InitInvite ==
  /\ ScopeTablesEmpty
  /\ StoreWithOrganization
  /\ dupSignUp \in DupSignUpModes
  /\ screens = [s \in Screens |-> ClosedScreen]
  /\ ClientAbsent
  /\ FormsAbsent

NextInvite ==
  \/ HandleCreateInvite
  \/ HandleCreateBranchUser
  \/ RevokeInvite
  \/ \E s \in Screens :
       \/ OpenInvite(s)
       \/ LoadInvite(s)
       \/ HandleAccept(s)
       \/ AcceptSignUp(s)
       \/ AcceptEnsureMembership(s)
       \/ AcceptMarkInvite(s)
       \/ CloseInvite(s)

SpecInvite == InitInvite /\ [][NextInvite]_vars

\* Retrying one invite link: the organization has issued a branch-admin
\* invite to a new email, and the invited person opens the link and submits
\* the form with a valid password until the account is ready.
RetryInvite ==
  [id |-> "i2", invite_token |-> "t2", organization_id |-> "o1",
   branch_office_id |-> "b2", email |-> "ann@branch", role |-> "branch_admin",
   department |-> NULL, status |-> "pending", user_id |-> NULL,
   accepted_at |-> 0]

InitRetry ==
  /\ ScopeTablesEmpty
  /\ authUsers = {[id |-> "u1", email |-> AdminEmail]}
  /\ organizations = {[id |-> "o1", user_id |-> "u1"]}
  /\ members = {[id |-> 1, user_id |-> "u1", organization_id |-> "o1",
                 role |-> "org_admin", branch_office_id |-> NULL,
                 department |-> NULL]}
  /\ invites = {RetryInvite}
  /\ nextMemberId = 2
  /\ clock = 1
  /\ failures = 0
  /\ dupSignUp \in DupSignUpModes
  /\ screens = [s \in Screens |-> ClosedScreen]
  /\ ClientAbsent
  /\ FormsAbsent

NextRetry ==
  \E s \in Screens :
    \/ OpenInviteLink(s, RetryInvite.invite_token)
    \/ LoadInvite(s)
    \/ HandleAccept(s)
    \/ AcceptSignUp(s)
    \/ AcceptEnsureMembership(s)
    \/ AcceptMarkInvite(s)

\* Every awaited call is answered, and the invited person keeps submitting
\* a valid password while the form is shown.
RetryFairness ==
  \A s \in Screens :
    /\ WF_vars(OpenInviteLink(s, RetryInvite.invite_token))
    /\ WF_vars(LoadInvite(s))
    /\ WF_vars(HandleAcceptWith(s, MinPasswordLength, TRUE))
    /\ WF_vars(AcceptSignUp(s))
    /\ WF_vars(AcceptEnsureMembership(s))
    /\ WF_vars(AcceptMarkInvite(s))

SpecRetry == InitRetry /\ [][NextRetry]_vars /\ RetryFairness

\* ------------------------------------------------ AuthProvider (client)
HydrationSlots == {"h1", "h2"}

OrgIds == <<"o1", "o2", "o3", "o4">>

SignUpEmails == {"carol@hq"}

IdleHydration == [pc |-> "idle", userId |-> NULL, init |-> FALSE, data |-> NULL]

\* signUp and completeOrganizationProfile: pc and the locals the remaining
\* steps read. A rejected promise is left to the calling view.
IdleProc ==
  [pc |-> "idle", userId |-> NULL, hasSession |-> FALSE,
   organizationId |-> NULL]

\* useState initial values.
InitialCtx ==
  [session |-> NULL, user |-> NULL, organization |-> NULL,
   memberRole |-> NULL, branchOfficeId |-> NULL, loading |-> TRUE]

OrganizationsOf(userId) == {o \in organizations : o.user_id = userId}

FreeSlot == CHOOSE h \in HydrationSlots : hydrations[h].pc = "idle"

\* hydrateMembership(userId) with a user id: the call runs up to its first
\* await.
StartHydration(userId, init) ==
  /\ \E h \in HydrationSlots : hydrations[h].pc = "idle"
  /\ hydrations' = [hydrations EXCEPT ![FreeSlot] =
       [pc |-> "fetchMembership", userId |-> userId, init |-> init,
        data |-> NULL]]

\* hydrateMembership returns; runInit's finally runs when it was runInit's
\* call.
FinishHydration(h, nextCtx) ==
  /\ hydrations' = [hydrations EXCEPT ![h] = IdleHydration]
  /\ ctx' = IF hydrations[h].init
            THEN [nextCtx EXCEPT !.loading = FALSE] ELSE nextCtx
  /\ initPc' = IF hydrations[h].init THEN "done" ELSE initPc

\* The catch block of hydrateMembership.
HydrationCaught(h) ==
  FinishHydration(h, [ctx EXCEPT !.organization = NULL, !.memberRole = NULL,
                                 !.branchOfficeId = NULL])

\* The onAuthStateChange callback.
onAuthStateChange(nextSession) ==
  IF nextSession # NULL
  THEN /\ ctx' = [ctx EXCEPT !.session = nextSession, !.user = nextSession]
       /\ StartHydration(nextSession, FALSE)
  ELSE /\ ctx' = [ctx EXCEPT !.session = NULL, !.user = NULL,
                             !.organization = NULL, !.memberRole = NULL,
                             !.branchOfficeId = NULL]
       /\ UNCHANGED hydrations

\* runInit: getSession answers, then hydrateMembership starts.
RunInit ==
  /\ initPc = "getSession"
  /\ \/ /\ Fail
        /\ ctx' = [ctx EXCEPT !.session = NULL, !.user = NULL,
                              !.organization = NULL, !.loading = FALSE]
        /\ initPc' = "done"
        /\ UNCHANGED hydrations
     \/ /\ authSession = NULL
        /\ ctx' = [ctx EXCEPT !.session = NULL, !.user = NULL,
                              !.organization = NULL, !.memberRole = NULL,
                              !.branchOfficeId = NULL, !.loading = FALSE]
        /\ initPc' = "done"
        /\ UNCHANGED <<hydrations, failures>>
     \/ /\ authSession # NULL
        /\ ctx' = [ctx EXCEPT !.session = authSession, !.user = authSession]
        /\ StartHydration(authSession, TRUE)
        /\ initPc' = "hydrating"
        /\ UNCHANGED failures
  /\ UNCHANGED <<formVars, scopeVars, screens, authUsers, organizations, members,
                 invites, nextMemberId, clock, dupSignUp, authSession,
                 signUpProc, profileProc>>

\* The auth client reports its current session again (initial session,
\* token refresh).
AuthStateChange ==
  /\ onAuthStateChange(authSession)
  /\ UNCHANGED <<formVars, scopeVars, screens, storeVars, authSession, initPc,
                 signUpProc, profileProc>>

\* await fetchMembershipForUser(userId) answers.
HydrateFetchMembership(h) ==
  /\ hydrations[h].pc = "fetchMembership"
  /\ LET userId == hydrations[h].userId
         r == fetchMembershipForUser(userId)
     IN  \/ /\ Fail
            /\ HydrationCaught(h)
         \/ /\ r.error
            /\ HydrationCaught(h)
            /\ UNCHANGED failures
         \/ /\ ~r.error
            /\ r.organization # NULL
            /\ FinishHydration(h,
                 [ctx EXCEPT !.organization = r.organization,
                             !.memberRole = Coalesce(r.member.role, NULL),
                             !.branchOfficeId =
                                Coalesce(r.member.branch_office_id, NULL)])
            /\ UNCHANGED failures
         \/ /\ ~r.error
            /\ r.organization = NULL
            /\ ctx' = [ctx EXCEPT !.organization = NULL, !.memberRole = NULL,
                                  !.branchOfficeId = NULL]
            /\ hydrations' = [hydrations EXCEPT ![h].pc = "fetchOrganization"]
            /\ UNCHANGED <<initPc, failures>>
  /\ UNCHANGED <<formVars, scopeVars, screens, authUsers, organizations, members,
                 invites, nextMemberId, clock, dupSignUp, authSession,
                 signUpProc, profileProc>>

\* await organizations.select('*').eq('user_id', userId).maybeSingle()
HydrateFetchOrganization(h) ==
  /\ hydrations[h].pc = "fetchOrganization"
  /\ LET rows == OrganizationsOf(hydrations[h].userId)
     IN  \/ /\ Fail
            /\ HydrationCaught(h)
         \/ /\ rows = {}
            /\ FinishHydration(h, ctx)
            /\ UNCHANGED failures
         \/ /\ rows # {}
            /\ hydrations' = [hydrations EXCEPT
                 ![h].pc = "ensureMembership",
                 ![h].data = (CHOOSE o \in rows : TRUE).id]
            /\ UNCHANGED <<ctx, initPc, failures>>
  /\ UNCHANGED <<formVars, scopeVars, screens, authUsers, organizations, members,
                 invites, nextMemberId, clock, dupSignUp, authSession,
                 signUpProc, profileProc>>

\* The self-healing branch that only sets the provider state.
HydrateSetsContextOnly(h) ==
  /\ hydrations[h].pc = "ensureMembership"
  /\ FinishHydration(h, [ctx EXCEPT !.organization = hydrations[h].data,
                                    !.memberRole = "org_admin",
                                    !.branchOfficeId = NULL])
  /\ UNCHANGED <<formVars, scopeVars, screens, storeVars, authSession, signUpProc,
                 profileProc>>

\* await ensureMembership({userId, organizationId: data.id, role:
\* 'org_admin'}) answers, then the three setters run.
HydrateEnsureMembership(h) ==
  /\ hydrations[h].pc = "ensureMembership"
  /\ \/ /\ Fail
        /\ HydrationCaught(h)
        /\ UNCHANGED <<members, nextMemberId>>
     \/ /\ ensureMembership(hydrations[h].userId, hydrations[h].data,
                            "org_admin", NULL, NULL)
        /\ FinishHydration(h, [ctx EXCEPT !.organization = hydrations[h].data,
                                          !.memberRole = "org_admin",
                                          !.branchOfficeId = NULL])
        /\ UNCHANGED failures
  /\ UNCHANGED <<formVars, scopeVars, screens, authUsers, organizations, invites,
                 clock, dupSignUp, authSession, signUpProc, profileProc>>

\* signIn: signInWithPassword answers; on success the auth client stores the
\* session and calls the onAuthStateChange callback. AuthLanding, which
\* holds the form, is rendered when loading is false and session is null.
SignIn ==
  /\ ~ctx.loading
  /\ ctx.session = NULL
  /\ \E u \in authUsers :
       /\ authSession' = u.id
       /\ onAuthStateChange(u.id)
  /\ UNCHANGED <<formVars, scopeVars, screens, storeVars, initPc, signUpProc,
                 profileProc>>

\* signOut: auth.signOut answers; the callback runs with a null session and
\* signOut's own setters repeat what it set.
SignOut ==
  /\ ~ctx.loading
  /\ ctx.session # NULL
  /\ authSession' = NULL
  /\ onAuthStateChange(NULL)
  /\ UNCHANGED <<formVars, scopeVars, screens, storeVars, initPc, signUpProc,
                 profileProc>>

SignUpThrows == signUpProc' = IdleProc

\* signUp up to the answer of supabase.auth.signUp.
SignUpAuth ==
  /\ ~ctx.loading
  /\ ctx.session = NULL
  /\ signUpProc.pc = "idle"
  /\ \E email \in SignUpEmails :
       LET known == {u \in authUsers : u.email = email}
       IN  \/ /\ Fail
              /\ SignUpThrows
              /\ UNCHANGED <<authUsers, authSession, ctx, hydrations>>
           \/ /\ known = {}
              /\ Cardinality(authUsers) < Len(UserIds)
              /\ LET userId == UserIds[Cardinality(authUsers) + 1]
                 IN  /\ authUsers' = authUsers \cup
                                       {[id |-> userId, email |-> email]}
                     /\ \E hasSession \in BOOLEAN :
                          /\ signUpProc' =
                               [IdleProc EXCEPT !.pc = "insertOrganization",
                                                !.userId = userId,
                                                !.hasSession = hasSession]
                          /\ IF hasSession
                             THEN /\ authSession' = userId
                                  /\ onAuthStateChange(userId)
                             ELSE UNCHANGED <<authSession, ctx, hydrations>>
              /\ UNCHANGED failures
           \/ /\ known # {}
              /\ dupSignUp = "error"
              /\ SignUpThrows
              /\ UNCHANGED <<authUsers, authSession, ctx, hydrations, failures>>
           \/ /\ known # {}
              /\ dupSignUp # "error"
              /\ signUpProc' =
                   [IdleProc EXCEPT
                      !.pc = "insertOrganization",
                      !.userId = IF dupSignUp = "existing"
                                 THEN (CHOOSE u \in known : TRUE).id
                                 ELSE FakeUserId]
              /\ UNCHANGED <<authUsers, authSession, ctx, hydrations, failures>>
  /\ UNCHANGED <<formVars, scopeVars, screens, organizations, members, invites,
                 nextMemberId, clock, dupSignUp, initPc, profileProc>>

\* organizations.insert({user_id: userId, ...}).select().single() answers.
\* organizations.user_id is unique (completeOrganizationProfile names it as
\* its conflict target) and references a principal.
SignUpInsertOrganization ==
  /\ signUpProc.pc = "insertOrganization"
  /\ LET userId == signUpProc.userId
         organizationId == OrgIds[Cardinality(organizations) + 1]
     IN  \/ /\ Fail
            /\ SignUpThrows
            /\ UNCHANGED <<organizations, ctx>>
         \/ /\ \/ ~\E u \in authUsers : u.id = userId
               \/ OrganizationsOf(userId) # {}
            /\ SignUpThrows
            /\ UNCHANGED <<organizations, ctx, failures>>
         \/ /\ \E u \in authUsers : u.id = userId
            /\ OrganizationsOf(userId) = {}
            /\ organizations' = organizations \cup
                 {[id |-> organizationId, user_id |-> userId]}
            /\ IF signUpProc.hasSession
               THEN /\ ctx' = [ctx EXCEPT !.organization = organizationId,
                                          !.memberRole = "org_admin",
                                          !.branchOfficeId = NULL]
                    /\ signUpProc' =
                         [signUpProc EXCEPT !.pc = "ensureMembership",
                                            !.organizationId = organizationId]
               ELSE /\ signUpProc' = IdleProc
                    /\ UNCHANGED ctx
            /\ UNCHANGED failures
  /\ UNCHANGED <<formVars, scopeVars, screens, authUsers, members, invites,
                 nextMemberId, clock, dupSignUp, authSession, initPc,
                 hydrations, profileProc>>

\* signUp's ensureMembership answers.
SignUpEnsureMembership ==
  /\ signUpProc.pc = "ensureMembership"
  /\ \/ /\ Fail
        /\ SignUpThrows
        /\ UNCHANGED <<members, nextMemberId>>
     \/ /\ ensureMembership(signUpProc.userId, signUpProc.organizationId,
                            "org_admin", NULL, NULL)
        /\ signUpProc' = IdleProc
        /\ UNCHANGED failures
  /\ UNCHANGED <<formVars, scopeVars, screens, authUsers, organizations, invites,
                 clock, dupSignUp, authSession, ctx, initPc, hydrations,
                 profileProc>>

\* completeOrganizationProfile with a plain insert in place of the upsert on
\* user_id: every completion stores a new organizations row.
CompleteOrganizationProfileInsertOnly ==
  /\ ~ctx.loading
  /\ ctx.session # NULL
  /\ ctx.organization = NULL
  /\ ctx.user # NULL
  /\ profileProc.pc = "idle"
  /\ Cardinality(organizations) < Len(OrgIds)
  /\ LET organizationId == OrgIds[Cardinality(organizations) + 1]
     IN  /\ organizations' = organizations \cup
               {[id |-> organizationId, user_id |-> ctx.user]}
         /\ ctx' = [ctx EXCEPT !.organization = organizationId,
                               !.memberRole = "org_admin",
                               !.branchOfficeId = NULL]
         /\ profileProc' =
              [IdleProc EXCEPT !.pc = "ensureMembership",
                               !.userId = ctx.user,
                               !.organizationId = organizationId]
  /\ UNCHANGED <<formVars, scopeVars, screens, authUsers, members, invites,
                 nextMemberId, clock, dupSignUp, authSession, initPc,
                 hydrations, signUpProc, failures>>

\* completeOrganizationProfile up to the answer of the organizations
\* upsert. OrganizationProfile, which holds the form, is rendered when
\* loading is false, a session is set and organization is null.
CompleteOrganizationProfile ==
  /\ ~ctx.loading
  /\ ctx.session # NULL
  /\ ctx.organization = NULL
  /\ ctx.user # NULL
  /\ profileProc.pc = "idle"
  /\ LET own == OrganizationsOf(ctx.user)
         organizationId == IF own = {}
                           THEN OrgIds[Cardinality(organizations) + 1]
                           ELSE (CHOOSE o \in own : TRUE).id
     IN  \/ /\ Fail
            /\ profileProc' = IdleProc
            /\ UNCHANGED <<organizations, ctx>>
         \/ /\ organizations' = organizations \cup
                 {[id |-> organizationId, user_id |-> ctx.user]}
            /\ ctx' = [ctx EXCEPT !.organization = organizationId,
                                  !.memberRole = "org_admin",
                                  !.branchOfficeId = NULL]
            /\ profileProc' =
                 [IdleProc EXCEPT !.pc = "ensureMembership",
                                  !.userId = ctx.user,
                                  !.organizationId = organizationId]
            /\ UNCHANGED failures
  /\ UNCHANGED <<formVars, scopeVars, screens, authUsers, members, invites,
                 nextMemberId, clock, dupSignUp, authSession, initPc,
                 hydrations, signUpProc>>

\* completeOrganizationProfile's ensureMembership answers.
ProfileEnsureMembership ==
  /\ profileProc.pc = "ensureMembership"
  /\ \/ /\ Fail
        /\ profileProc' = IdleProc
        /\ UNCHANGED <<members, nextMemberId>>
     \/ /\ ensureMembership(profileProc.userId, profileProc.organizationId,
                            "org_admin", NULL, NULL)
        /\ profileProc' = IdleProc
        /\ UNCHANGED failures
  /\ UNCHANGED <<formVars, scopeVars, screens, authUsers, organizations, invites,
                 clock, dupSignUp, authSession, ctx, initPc, hydrations,
                 signUpProc>>

\* The page is loaded again: the provider mounts with its initial state and
\* the calls of the previous page no longer reach it; the auth client keeps
\* the stored session.
Mount ==
  /\ initPc = "done"
  /\ \A h \in HydrationSlots : hydrations[h].pc = "idle"
  /\ signUpProc.pc = "idle"
  /\ profileProc.pc = "idle"
  /\ ctx' = InitialCtx
  /\ initPc' = "getSession"
  /\ signUpProc' = IdleProc
  /\ profileProc' = IdleProc
  /\ UNCHANGED <<formVars, scopeVars, screens, storeVars, authSession, hydrations>>

\* ------------------------------------------------ specification: member
\* One browser runs the application against the store of an organization
\* with an accepted branch admin, while the person invited by RetryInvite
\* accepts on another page.
InitMember ==
  /\ ScopeTablesEmpty
  /\ StoreWithOrganization
  /\ dupSignUp \in DupSignUpModes
  /\ screens = [s \in Screens |-> ClosedScreen]
  /\ authSession = NULL
  /\ ctx = InitialCtx
  /\ initPc = "getSession"
  /\ hydrations = [h \in HydrationSlots |-> IdleHydration]
  /\ signUpProc = IdleProc
  /\ profileProc = IdleProc
  /\ FormsAbsent

NextMember ==
  \/ RunInit
  \/ AuthStateChange
  \/ \E h \in HydrationSlots :
       \/ HydrateFetchMembership(h)
       \/ HydrateFetchOrganization(h)
       \/ HydrateEnsureMembership(h)
  \/ SignIn
  \/ SignOut
  \/ SignUpAuth
  \/ SignUpInsertOrganization
  \/ SignUpEnsureMembership
  \/ CompleteOrganizationProfile
  \/ ProfileEnsureMembership
  \/ Mount

SpecMember == InitMember /\ [][NextMember]_vars

\* ------------------------------------------------------------ claims
\* The five-case scope rule, first match wins; an explicit scope of 'all'
\* matches none of the filtering cases.
ScopeRule(branch_office_id, X, scope) ==
  CASE scope = "branch" /\ X # NULL -> branch_office_id = X
    [] scope = "branch" /\ X = NULL -> branch_office_id # NULL
    [] scope = "organization" -> branch_office_id = NULL
    [] scope = NULL /\ X # NULL -> branch_office_id = X \/ branch_office_id = NULL
    [] OTHER -> TRUE

ListedTable ==
  CASE listed.kind = "vendors" -> vendors
    [] listed.kind = "projects" -> projects
    [] listed.kind = "agreements" -> agreements
    [] OTHER -> {}

\* C1: for every organization, scope and branchOfficeId, fetchVendors and
\* fetchProjects (no status filter) return exactly the organization's rows
\* the five-case rule selects, each once.
C1_ScopedListFollowsFiveCaseRule ==
  (listed.kind \in {"vendors", "projects"} /\ listed.statuses = {}) =>
    /\ Range(listed.rows) =
         {r \in ListedTable :
            /\ r.organization_id = listed.organizationId
            /\ ScopeRule(r.branch_office_id, listed.branchOfficeId, listed.scope)}
    /\ Len(listed.rows) = Cardinality(Range(listed.rows))

\* C1 witness: a default-scope vendor list for branch b1 that holds a b1
\* row while a b2 row of the same organization is left out.
C1_Witness ==
  /\ listed.kind = "vendors"
  /\ listed.scope = NULL
  /\ listed.branchOfficeId = "b1"
  /\ \E r \in Range(listed.rows) : r.branch_office_id = "b1"
  /\ \E r \in vendors :
       /\ r.organization_id = listed.organizationId
       /\ r.branch_office_id = "b2"
       /\ r \notin Range(listed.rows)

\* C2: the agreements list of a branch member with own branch B holds the
\* organization's agreements owned by B or by no branch, and no others.
C2_AgreementsListSameBranchScope ==
  (/\ listed.kind = "agreements"
   /\ listed.role \in {"branch_admin", "branch_user"}
   /\ listed.branchOfficeId # NULL) =>
    Range(listed.rows) =
      {r \in agreements :
         /\ r.organization_id = listed.organizationId
         /\ (r.branch_office_id = listed.branchOfficeId
             \/ r.branch_office_id = NULL)}

InviteIn(table, id) ==
  LET rows == {i \in table : i.id = id}
  IN  IF rows = {} THEN NoInvite ELSE CHOOSE i \in rows : TRUE

StoredInvite(id) == InviteIn(invites, id)

MembershipsIn(table, userId, organizationId) ==
  {m \in table : m.user_id = userId /\ m.organization_id = organizationId}

MembershipsOf(userId, organizationId) ==
  MembershipsIn(members, userId, organizationId)

\* C3: invite status only moves pending -> accepted or pending -> revoked:
\* an accepted invite stays as it is (status, user_id, accepted_at) and a
\* revoked invite stays revoked, whatever load and accept steps follow.
C3_InviteTerminalStatesAreFinal ==
  [][\A i \in invites :
       /\ i.status = "accepted" => i \in invites'
       /\ i.status = "revoked" =>
            \E j \in invites' : j.id = i.id /\ j.status = "revoked"]_vars

\* C4: an invite is accepted at most once: a step of an acceptance attempt
\* on an invite that is already accepted creates no principal, writes no
\* membership, leaves the invite row as it is, and the attempt ends with
\* the message 'already accepted'.
C4_InviteAcceptedAtMostOnce ==
  [][\A s \in Screens :
       (/\ screens[s].accepting
        /\ screens'[s] # screens[s]
        /\ StoredInvite(screens[s].inviteDetails.id).status = "accepted") =>
         /\ authUsers' = authUsers
         /\ members' = members
         /\ invites' = invites
         /\ ~screens'[s].success
         /\ ~screens'[s].accepting =>
              screens'[s].inviteError = MsgAlreadyAccepted]_vars

\* C5: a revoked invite cannot be accepted: no step of an acceptance screen
\* opened on it creates a principal or a membership, the screen shows no
\* form for it, and its status stays revoked.
C5_RevokedInviteIsNotAccepted ==
  [][\A s \in Screens :
       (/\ screens'[s] # screens[s]
        /\ StoredInvite(screens[s].inviteDetails.id).status = "revoked") =>
         /\ authUsers' = authUsers
         /\ members' = members
         /\ InviteIn(invites', screens[s].inviteDetails.id) =
              StoredInvite(screens[s].inviteDetails.id)]_vars

RetryPrincipals == {u \in authUsers : u.email = RetryInvite.email}

\* C7: once the principal exists while the invite is still pending (the
\* acceptance failed part-way), retrying leads to the invite accepted and
\* exactly one membership of that user in the organization.
C7_PartialAcceptanceRecovers ==
  (RetryPrincipals # {} /\ StoredInvite(RetryInvite.id).status = "pending")
    ~> (/\ StoredInvite(RetryInvite.id).status = "accepted"
        /\ \A u \in RetryPrincipals :
             Cardinality(MembershipsOf(u.id, RetryInvite.organization_id)) = 1)

HealCompletes(h) ==
  /\ hydrations[h].pc = "ensureMembership"
  /\ hydrations'[h].pc = "idle"
  /\ failures' = failures

\* C9: when a resolution finishes its self-healing branch, the user has
\* exactly one membership in the organization they own, it is an org_admin
\* membership without a branch, and the provider reports org_admin; every
\* other resolution step (a later resolution included) writes no membership.
C9_SelfHealCreatesOneOrgAdminMembership ==
  [][\A h \in HydrationSlots :
       /\ HealCompletes(h) =>
            /\ \E m \in members' :
                 /\ MembershipsIn(members', hydrations[h].userId,
                                  hydrations[h].data) = {m}
                 /\ m.role = "org_admin"
                 /\ m.branch_office_id = NULL
            /\ \E o \in organizations :
                 o.id = hydrations[h].data /\ o.user_id = hydrations[h].userId
            /\ ctx'.memberRole = "org_admin"
            /\ ctx'.organization = hydrations[h].data
       /\ (hydrations'[h] # hydrations[h] /\ ~HealCompletes(h)) =>
            members' = members]_vars

\* C9 witness: two resolutions of the same user are both in the
\* self-healing branch, and the user has no membership row yet.
C9_Witness ==
  /\ hydrations["h1"].pc = "ensureMembership"
  /\ hydrations["h2"].pc = "ensureMembership"
  /\ hydrations["h1"].userId = hydrations["h2"].userId
  /\ {m \in members : m.user_id = hydrations["h1"].userId} = {}

\* C10: when the membership lookup of a resolution answers for a user who
\* has a membership row, the provider holds the organization, role and
\* branch of a row of that user, the resolution ends there, and no row of
\* organization_members or organizations is written.
C10_ResolutionReturnsStoredMembership ==
  [][\A h \in HydrationSlots :
       (/\ hydrations[h].pc = "fetchMembership"
        /\ hydrations'[h].pc # "fetchMembership"
        /\ failures' = failures
        /\ {m \in members : m.user_id = hydrations[h].userId} # {}) =>
         /\ \E m \in members :
              /\ m.user_id = hydrations[h].userId
              /\ ctx'.organization = m.organization_id
              /\ ctx'.memberRole = m.role
              /\ ctx'.branchOfficeId = m.branch_office_id
         /\ hydrations'[h].pc = "idle"
         /\ members' = members
         /\ organizations' = organizations]_vars

\* AppShell renders OrganizationProfile, the onboarding form, for this
\* provider state.
NeedsOnboarding(c) ==
  /\ ~c.loading
  /\ c.session # NULL
  /\ c.organization = NULL

LookupFails(h) ==
  /\ hydrations[h].pc \in {"fetchMembership", "fetchOrganization"}
  /\ hydrations'[h].pc = "idle"
  /\ \/ failures' # failures
     \/ /\ hydrations[h].pc = "fetchMembership"
        /\ fetchMembershipForUser(hydrations[h].userId).error

\* C11: a resolution whose membership or organization lookup fails never
\* leaves the provider in the needs-onboarding state (session set, no
\* organization), the state an absent organization and membership produce.
C11_LookupFailureIsNotOnboarding ==
  [][\A h \in HydrationSlots : LookupFails(h) => ~NeedsOnboarding(ctx')]_vars

\* ================================================================
\* The views of the signed-in application
\* ================================================================
\* useAuth() of a signed-in member: organization, memberRole,
\* branchOfficeId.
SessionPrincipals ==
  UNION {{[organizationId |-> o, role |-> p.role,
           branchOfficeId |-> p.branchOfficeId] : p \in Principals(o)} :
         o \in Orgs}

isOrgAdmin == principal.role = "org_admin"

DefaultView == "dashboard"

\* enforceViewAccess without the tests for 'vendors' and 'projects'.
enforceViewAccessOfficesOnly(targetView) ==
  IF targetView = "offices" /\ ~isOrgAdmin THEN DefaultView
  ELSE IF targetView = "departments" /\ principal.role # "branch_admin"
  THEN DefaultView
  ELSE targetView

\* App.enforceViewAccess
enforceViewAccess(targetView) ==
  IF targetView = "offices" /\ ~isOrgAdmin THEN DefaultView
  ELSE IF targetView = "departments" /\ principal.role # "branch_admin"
  THEN DefaultView
  ELSE IF targetView = "vendors"
          /\ ~(isOrgAdmin \/ principal.role = "branch_admin")
  THEN DefaultView
  ELSE IF targetView = "projects"
          /\ ~(isOrgAdmin \/ principal.role = "branch_admin")
  THEN DefaultView
  ELSE targetView

MsgInviteEmailRequired == "Email is required to invite an admin."
MsgInviteEmailFailed ==
  "Invite saved, but email delivery failed. Copy the link below and share it manually."
MsgTeamRequired == "Name, department, and email are required."
MsgTeamEmailFailed ==
  "Invite created, but email failed. Copy the link below and share it manually."
MsgTeamCreated == "Account invite created. Share the link or copy it below."

\* supabase.functions.invoke: delivered, an error result, or a rejected
\* promise.
EmailOutcomes == {"sent", "error", "thrown"}

\* `${window.location.origin}/#/invite/${token}`
InviteLinkOf(token) == [route |-> "#/invite/", token |-> token]

\* inviteLink === null
NoLink == [route |-> NULL, token |-> NULL]

\* ----------------------------------------- OfficeManager, invite panel
\* Component state of the invite panel of the office manager and of the
\* branch team manager: inviteLink, the message shown (inviteError, or
\* error / success), the office the panel is open for, the email typed,
\* and the email the running handler closed over (sendTo).
InvitePanel(view, office) ==
  [view |-> view, pc |-> "idle", office |-> office, email |-> "",
   sendTo |-> "", inviteLink |-> NoLink, inviteError |-> NULL, success |-> NULL,
   token |-> NULL, refreshed |-> FALSE]

\* handleOpenOffice: the org admin opens the panel of an office of the
\* organization (offices are listed by organization_id).
HandleOpenOffice ==
  /\ isOrgAdmin
  /\ ui.pc = "idle"
  /\ \E office \in BranchesOf(principal.organizationId) :
       ui' = InvitePanel("offices", office)
  /\ UNCHANGED <<templates, vendorDocuments, agreementContent, newOffices,
                 outbox, storage, principal, scopeVars, storeVars, screens,
                 clientVars>>

\* The branch admin opens the branch team view; it renders the form only
\* with a branch.
OpenBranchTeam ==
  /\ enforceViewAccess("departments") = "departments"
  /\ Truthy(principal.branchOfficeId)
  /\ ui.pc = "idle"
  /\ ui' = InvitePanel("departments", principal.branchOfficeId)
  /\ UNCHANGED <<templates, vendorDocuments, agreementContent, newOffices,
                 outbox, storage, principal, scopeVars, storeVars, screens,
                 clientVars>>

\* The email field of the panel.
TypeInviteEmail ==
  /\ ui.view \in {"offices", "departments"}
  /\ ui.pc = "idle"
  /\ \E e \in InviteEmails \cup {""} : ui' = [ui EXCEPT !.email = e]
  /\ UNCHANGED <<templates, vendorDocuments, agreementContent, newOffices,
                 outbox, storage, principal, scopeVars, storeVars, screens,
                 clientVars>>

\* OfficeManager.handleCreateInvite up to the answer of createBranchInvite.
OfficeCreateInvite ==
  /\ ui.view = "offices"
  /\ ui.pc = "idle"
  /\ IF ~Truthy(ui.email)
     THEN /\ ui' = [ui EXCEPT !.inviteError = MsgInviteEmailRequired]
          /\ UNCHANGED <<invites, failures>>
     ELSE /\ Cardinality(invites) < MaxInvites
          /\ \/ /\ createBranchInvite(principal.organizationId, ui.office,
                                      ui.email, "branch_admin", NULL)
                /\ UNCHANGED failures
                /\ ui' = [ui EXCEPT
                     !.inviteError = NULL,
                     !.inviteLink =
                        InviteLinkOf(InviteTokens[Cardinality(invites) + 1]),
                     !.token = InviteTokens[Cardinality(invites) + 1],
                     !.sendTo = ui.email, !.email = "",
                     !.pc = "sendEmail"]
             \/ /\ Fail
                /\ UNCHANGED invites
                /\ ui' = [ui EXCEPT !.inviteError = MsgBackend,
                                    !.inviteLink = NoLink]
  /\ UNCHANGED <<templates, vendorDocuments, agreementContent, newOffices,
                 outbox, storage, principal, scopeVars, screens, clientVars,
                 authUsers, organizations, members, nextMemberId, clock,
                 dupSignUp>>

\* The dispatch with a handler that withdraws the link when the function
\* call is rejected.
OfficeSendInviteEmailDropsLink ==
  /\ ui.view = "offices"
  /\ ui.pc = "sendEmail"
  /\ \E outcome \in EmailOutcomes :
       /\ outbox' = outbox \cup
            {[inviteLink |-> ui.inviteLink, email |-> ui.sendTo,
              outcome |-> outcome]}
       /\ ui' = IF outcome = "thrown"
                THEN [ui EXCEPT !.inviteError = MsgInviteEmailFailed,
                                !.inviteLink = NoLink,
                                !.sendTo = "", !.pc = "refresh"]
                ELSE [ui EXCEPT !.sendTo = "", !.pc = "refresh"]
  /\ UNCHANGED <<templates, vendorDocuments, agreementContent, newOffices,
                 storage, principal, scopeVars, storeVars, screens,
                 clientVars>>

\* handleCreateInvite, the inner try: supabase.functions.invoke
\* ('send-branch-invite'); only a rejected promise reaches the catch.
OfficeSendInviteEmail ==
  /\ ui.view = "offices"
  /\ ui.pc = "sendEmail"
  /\ \E outcome \in EmailOutcomes :
       /\ outbox' = outbox \cup
            {[inviteLink |-> ui.inviteLink, email |-> ui.sendTo,
              outcome |-> outcome]}
       /\ ui' = IF outcome = "thrown"
                THEN [ui EXCEPT !.inviteError = MsgInviteEmailFailed,
                                !.sendTo = "", !.pc = "refresh"]
                ELSE [ui EXCEPT !.sendTo = "", !.pc = "refresh"]
  /\ UNCHANGED <<templates, vendorDocuments, agreementContent, newOffices,
                 storage, principal, scopeVars, storeVars, screens,
                 clientVars>>

\* handleCreateInvite, the end: fetchBranchInvites; its failure reaches the
\* outer catch.
OfficeRefreshInvites ==
  /\ ui.view = "offices"
  /\ ui.pc = "refresh"
  /\ \/ /\ UNCHANGED failures
        /\ ui' = [ui EXCEPT !.pc = "idle", !.refreshed = TRUE]
     \/ /\ Fail
        /\ ui' = [ui EXCEPT !.pc = "idle", !.inviteError = MsgBackend]
  /\ UNCHANGED <<templates, vendorDocuments, agreementContent, newOffices,
                 outbox, storage, principal, scopeVars, screens, clientVars,
                 authUsers, organizations, members, invites, nextMemberId,
                 clock, dupSignUp>>

\* ------------------------------------------------- BranchUserManager
\* handleCreate up to the answer of createBranchUserAccount, for a form
\* whose name and department are filled or not.
TeamCreate ==
  /\ ui.view = "departments"
  /\ ui.pc = "idle"
  /\ \E dept \in {"", "Finance"} :
       IF ~Truthy(dept) \/ ~Truthy(ui.email)
       THEN /\ ui' = [ui EXCEPT !.inviteError = MsgTeamRequired]
            /\ UNCHANGED <<invites, failures>>
       ELSE /\ Cardinality(invites) < MaxInvites
            /\ \/ /\ createBranchUserAccount(principal.organizationId,
                                             principal.branchOfficeId,
                                             ui.email, dept)
                  /\ UNCHANGED failures
                  /\ ui' = [ui EXCEPT
                       !.inviteError = NULL,
                       !.success = MsgTeamCreated,
                       !.inviteLink =
                          InviteLinkOf(InviteTokens[Cardinality(invites) + 1]),
                       !.token = InviteTokens[Cardinality(invites) + 1],
                       !.sendTo = ui.email, !.email = "",
                       !.pc = "sendEmail"]
               \/ /\ Fail
                  /\ UNCHANGED invites
                  /\ ui' = [ui EXCEPT !.inviteError = MsgBackend,
                                      !.success = NULL, !.inviteLink = NoLink]
  /\ UNCHANGED <<templates, vendorDocuments, agreementContent, newOffices,
                 outbox, storage, principal, scopeVars, screens, clientVars,
                 authUsers, organizations, members, nextMemberId, clock,
                 dupSignUp>>

\* handleCreate, the inner try; loadPeople() is started and not awaited.
TeamSendInviteEmail ==
  /\ ui.view = "departments"
  /\ ui.pc = "sendEmail"
  /\ \E outcome \in EmailOutcomes :
       /\ outbox' = outbox \cup
            {[inviteLink |-> ui.inviteLink, email |-> ui.sendTo,
              outcome |-> outcome]}
       /\ ui' = IF outcome = "thrown"
                THEN [ui EXCEPT !.success = MsgTeamEmailFailed,
                                !.sendTo = "", !.pc = "idle"]
                ELSE [ui EXCEPT !.sendTo = "", !.pc = "idle"]
  /\ UNCHANGED <<templates, vendorDocuments, agreementContent, newOffices,
                 storage, principal, scopeVars, storeVars, screens,
                 clientVars>>

\* ------------------------------------------------------- the session
\* The dashboard, the view every member lands on.
Dashboard == [view |-> DefaultView, pc |-> "idle", error |-> NULL]

\* Members of the organizations the store holds.
StoredPrincipals ==
  {p \in SessionPrincipals :
     \E o \in organizations : o.id = p.organizationId}

\* Another member signs in on this browser: the views start over.
SwitchSession ==
  /\ ui.pc = "idle"
  /\ \E p \in StoredPrincipals : principal' = p
  /\ ui' = Dashboard
  /\ UNCHANGED <<templates, vendorDocuments, agreementContent, newOffices,
                 outbox, storage, scopeVars, storeVars, screens, clientVars>>

InitOffice ==
  /\ ScopeTablesEmpty
  /\ StoreWithOrganization
  /\ dupSignUp = "error"
  /\ screens = [s \in Screens |-> ClosedScreen]
  /\ ClientAbsent
  /\ templates = {}
  /\ vendorDocuments = <<>>
  /\ agreementContent = <<>>
  /\ newOffices = {}
  /\ outbox = {}
  /\ storage = {}
  /\ principal \in StoredPrincipals
  /\ ui = Dashboard

NextOffice ==
  \/ SwitchSession
  \/ HandleOpenOffice
  \/ OpenBranchTeam
  \/ TypeInviteEmail
  \/ OfficeCreateInvite
  \/ OfficeSendInviteEmail
  \/ OfficeRefreshInvites
  \/ TeamCreate
  \/ TeamSendInviteEmail

SpecOffice == InitOffice /\ [][NextOffice]_vars

\* ----------------------------------------------------------------
\* C12: creating an invite writes the row before the email is attempted
\* and shows the link before the dispatch; whatever the dispatch answers
\* (sent, error result, rejected) the row stays pending and the panel
\* keeps the link; when the insert fails no email is attempted and no
\* link is shown.
InvitePanelShown(u) == u.view \in {"offices", "departments"}

PendingInviteFor(table, u) ==
  \E i \in table :
    /\ i.invite_token = u.token
    /\ i.status = "pending"
    /\ InviteLinkOf(i.invite_token) = u.inviteLink

C12_InviteLinkSurvivesEmailOutcome ==
  [][/\ (InvitePanelShown(ui') /\ ui'.inviteLink # NoLink)
          => PendingInviteFor(invites', ui')
     /\ \A m \in outbox' :
          \E i \in invites' : InviteLinkOf(i.invite_token) = m.inviteLink
     /\ (InvitePanelShown(ui) /\ ui.pc \in {"sendEmail", "refresh"})
          => /\ invites' = invites
             /\ ui'.inviteLink = ui.inviteLink
             /\ ui'.inviteLink # NoLink
     /\ (InvitePanelShown(ui) /\ ui.pc = "idle" /\ failures' # failures)
          => /\ invites' = invites
             /\ outbox' = outbox
             /\ ui'.pc = "idle"
             /\ ui'.inviteLink = NoLink]_vars

C12_Witness ==
  /\ InvitePanelShown(ui)
  /\ ui.pc = "idle"
  /\ ui.inviteLink # NoLink
  /\ PendingInviteFor(invites, ui)
  /\ \E m \in outbox : m.inviteLink = ui.inviteLink /\ m.outcome = "thrown"

\* ================================================================
\* The resource views: vendors, projects, templates, drafting studio
\* ================================================================
\* What the views leave alone: the identity tables, the invite pages, the
\* provider, the email outbox and who is signed in.
sessionFrame == <<storeVars, screens, clientVars, outbox, principal>>

MsgVendorRequired == "Vendor name and TIN are required."
MsgVendorBranch == "Select a branch to assign this vendor."
MsgQuickVendorBranch == "Assign a branch to create this vendor."
MsgProjectName == "Project name is required."
MsgProjectBranch == "Select a branch for branch-scoped projects."
MsgQuickProjectBranch == "Assign a branch to create this project."
MsgTemplateName == "Template name is required."
MsgTemplateBranch == "Branch templates require a branch office context."
MsgOfficeRequired == "Branch identifier and location are required."

\* memberRole === 'branch_admin' && !branchOfficeId
branchLocked ==
  principal.role = "branch_admin" /\ ~Truthy(principal.branchOfficeId)

\* A mounted view: which one, whether a handler of it is waiting for an
\* answer, and the inline error it shows.
MountedView(view) == [view |-> view, pc |-> "idle", error |-> NULL]

\* App.navigateTo: the sidebar opens a view the role may open.
NavigateTo ==
  /\ ui.pc = "idle"
  /\ listed = NoList
  /\ \E view \in {"dashboard", "vendors", "projects", "templates",
                  "generator", "offices"} :
       /\ enforceViewAccess(view) = view
       /\ ui' = MountedView(view)
  /\ UNCHANGED <<sessionFrame, scopeVars, templates, vendorDocuments,
                 agreementContent, newOffices, storage>>

\* The branch select filled with every office of every organization.
FormStatesAnyOffice ==
  IF isOrgAdmin
  THEN {[scope |-> sc, branchOfficeId |-> b] :
          sc \in {"organization", "branch"}, b \in {""} \cup Branches}
  ELSE {[scope |-> "branch", branchOfficeId |-> b] :
          b \in {""} \cup ({principal.branchOfficeId} \ {NULL})}

\* The scope radio and the branch select of a create form. The radio is
\* rendered for org admins only and the form of any other member is kept at
\* scope 'branch'; the select offers "" and the offices the view loaded: the
\* organization's for an org admin, the member's own otherwise.
FormStates ==
  IF isOrgAdmin
  THEN {[scope |-> sc, branchOfficeId |-> b] :
          sc \in {"organization", "branch"},
          b \in {""} \cup BranchesOf(principal.organizationId)}
  ELSE {[scope |-> "branch", branchOfficeId |-> b] :
          b \in {""} \cup ({principal.branchOfficeId} \ {NULL})}

\* ------------------------------------------------------- VendorManager
\* handleCreateVendor: branchAssignment
vendorBranchAssignment(form) ==
  IF isOrgAdmin
  THEN IF form.scope = "organization" THEN NULL
       ELSE OrElse(form.branchOfficeId, NULL)
  ELSE principal.branchOfficeId

\* handleCreateVendor, for a form whose name and TIN are filled or not.
CreateVendorWith(form, filled) ==
  /\ ui.view = "vendors"
  /\ ui.pc = "idle"
  /\ ~branchLocked
  /\ listed = NoList
  /\ IF ~filled
       THEN /\ ui' = [ui EXCEPT !.error = MsgVendorRequired]
            /\ UNCHANGED <<vendors, nextRowId>>
       ELSE IF form.scope = "branch"
               /\ ~(Truthy(form.branchOfficeId) \/ Truthy(principal.branchOfficeId))
       THEN /\ ui' = [ui EXCEPT !.error = MsgVendorBranch]
            /\ UNCHANGED <<vendors, nextRowId>>
       ELSE /\ RowCount < MaxRows
            /\ createVendor(principal.organizationId,
                            vendorBranchAssignment(form))
            /\ ui' = [ui EXCEPT !.error = NULL]
  /\ UNCHANGED <<sessionFrame, projects, agreements, listed, templates,
                 vendorDocuments, agreementContent, newOffices, storage>>

HandleCreateVendor ==
  \E form \in FormStates : \E filled \in BOOLEAN : CreateVendorWith(form, filled)

\* determineBranchParam, for an org admin's scope and branch filters.
determineBranchParam(scopeFilter, branchFilter) ==
  IF isOrgAdmin
  THEN IF scopeFilter = "branch" /\ branchFilter # "all" THEN branchFilter
       ELSE NULL
  ELSE Coalesce(principal.branchOfficeId, NULL)

\* loadVendors of the vendor manager as it runs on mount: scopeFilter is
\* 'all' for an org admin and 'branch' otherwise, branchFilter is 'all'.
VendorManagerLoad ==
  /\ ui.view = "vendors"
  /\ ui.pc = "idle"
  /\ listed = NoList
  /\ \E scopeFilter \in {IF isOrgAdmin THEN "all" ELSE "branch"} :
     \E branchFilter \in {"all"} :
       LET b == determineBranchParam(scopeFilter, branchFilter)
           sc == IF isOrgAdmin THEN scopeFilter ELSE NULL
       IN  listed' = [kind |-> "vendors",
                      organizationId |-> principal.organizationId,
                      branchOfficeId |-> principal.branchOfficeId,
                      scope |-> sc, statuses |-> {}, projectId |-> 0,
                      role |-> principal.role,
                      rows |-> IF branchLocked THEN <<>>
                               ELSE fetchVendors(principal.organizationId, b, sc)]
  /\ UNCHANGED <<sessionFrame, vendors, projects, agreements, nextRowId,
                 templates, vendorDocuments, agreementContent, newOffices,
                 storage, ui>>

\* ------------------------------------------------------ ProjectManager
\* handleCreateProject: the branch written, with the form's branch used
\* alone.
projectBranchAssignmentFormOnly(form) ==
  IF form.scope = "organization" THEN NULL
  ELSE OrElse(form.branchOfficeId, NULL)

\* handleCreateProject: the branch written.
projectBranchAssignment(form) ==
  IF form.scope = "organization" THEN NULL
  ELSE OrElse(form.branchOfficeId, OrElse(principal.branchOfficeId, NULL))

\* handleCreateProject, for a form whose name is filled or not.
CreateProjectWith(form, filled, status) ==
  /\ ui.view = "projects"
  /\ ui.pc = "idle"
  /\ ~branchLocked
  /\ listed = NoList
  /\ IF ~filled
       THEN /\ ui' = [ui EXCEPT !.error = MsgProjectName]
            /\ UNCHANGED <<projects, nextRowId>>
       ELSE IF form.scope = "branch"
               /\ ~(Truthy(form.branchOfficeId) \/ Truthy(principal.branchOfficeId))
       THEN /\ ui' = [ui EXCEPT !.error = MsgProjectBranch]
            /\ UNCHANGED <<projects, nextRowId>>
       ELSE /\ RowCount < MaxRows
            /\ createProject(principal.organizationId,
                             projectBranchAssignment(form), status)
            /\ ui' = [ui EXCEPT !.error = NULL]
  /\ UNCHANGED <<sessionFrame, vendors, agreements, listed, templates,
                 vendorDocuments, agreementContent, newOffices, storage>>

HandleCreateProject ==
  \E form \in FormStates : \E filled \in BOOLEAN :
    \E status \in ProjectStatusInputs : CreateProjectWith(form, filled, status)

\* loadProjects of the project manager as it runs on mount: statusFilter
\* and branchFilter are 'all', scopeFilter is 'all' for an org admin and
\* 'branch' otherwise.
ProjectManagerLoad ==
  /\ ui.view = "projects"
  /\ ui.pc = "idle"
  /\ listed = NoList
  /\ \E scopeFilter \in {IF isOrgAdmin THEN "all" ELSE "branch"} :
     \E branchFilter \in {"all"} :
       LET b == IF branchFilter = "all"
                THEN Coalesce(principal.branchOfficeId, NULL)
                ELSE branchFilter
           sc == IF isOrgAdmin THEN scopeFilter ELSE "branch"
       IN  listed' = [kind |-> "projects",
                      organizationId |-> principal.organizationId,
                      branchOfficeId |-> principal.branchOfficeId,
                      scope |-> sc, statuses |-> {}, projectId |-> 0,
                      role |-> principal.role,
                      rows |-> IF branchLocked THEN <<>>
                               ELSE fetchProjects(principal.organizationId,
                                                  b, sc, {})]
  /\ UNCHANGED <<sessionFrame, vendors, projects, agreements, nextRowId,
                 templates, vendorDocuments, agreementContent, newOffices,
                 storage, ui>>

\* ---------------------------------------- AgreementGenerator (studio)
\* handleQuickVendorSave / handleQuickProjectSave: branchAssignment
quickBranchAssignment(form) ==
  IF isOrgAdmin
  THEN IF form.scope = "organization" THEN NULL
       ELSE OrElse(form.branchOfficeId, NULL)
  ELSE principal.branchOfficeId

\* handleQuickVendorSave
QuickVendorSaveWith(form, filled) ==
  /\ ui.view = "generator"
  /\ ui.pc = "idle"
  /\ listed = NoList
  /\ IF ~filled
       THEN /\ ui' = [ui EXCEPT !.error = MsgVendorRequired]
            /\ UNCHANGED <<vendors, nextRowId>>
       ELSE IF form.scope = "branch" /\ ~Truthy(quickBranchAssignment(form))
       THEN /\ ui' = [ui EXCEPT !.error = MsgQuickVendorBranch]
            /\ UNCHANGED <<vendors, nextRowId>>
       ELSE /\ RowCount < MaxRows
            /\ createVendor(principal.organizationId,
                            Coalesce(quickBranchAssignment(form), NULL))
            /\ ui' = [ui EXCEPT !.error = NULL]
  /\ UNCHANGED <<sessionFrame, projects, agreements, listed, templates,
                 vendorDocuments, agreementContent, newOffices, storage>>

HandleQuickVendorSave ==
  \E form \in FormStates : \E filled \in BOOLEAN : QuickVendorSaveWith(form, filled)

\* handleQuickProjectSave; the quick form creates active projects.
QuickProjectSaveWith(form, filled) ==
  /\ ui.view = "generator"
  /\ ui.pc = "idle"
  /\ listed = NoList
  /\ IF ~filled
       THEN /\ ui' = [ui EXCEPT !.error = MsgProjectName]
            /\ UNCHANGED <<projects, nextRowId>>
       ELSE IF form.scope = "branch" /\ ~Truthy(quickBranchAssignment(form))
       THEN /\ ui' = [ui EXCEPT !.error = MsgQuickProjectBranch]
            /\ UNCHANGED <<projects, nextRowId>>
       ELSE /\ RowCount < MaxRows
            /\ createProject(principal.organizationId,
                             Coalesce(quickBranchAssignment(form), NULL),
                             "active")
            /\ ui' = [ui EXCEPT !.error = NULL]
  /\ UNCHANGED <<sessionFrame, vendors, agreements, listed, templates,
                 vendorDocuments, agreementContent, newOffices, storage>>

HandleQuickProjectSave ==
  \E form \in FormStates : \E filled \in BOOLEAN : QuickProjectSaveWith(form, filled)

\* The studio's loadVendors effect.
GeneratorLoadVendors ==
  /\ ui.view = "generator"
  /\ ui.pc = "idle"
  /\ listed = NoList
  /\ LET sc == IF isOrgAdmin THEN "all" ELSE NULL
     IN  listed' = [kind |-> "vendors",
                    organizationId |-> principal.organizationId,
                    branchOfficeId |-> principal.branchOfficeId,
                    scope |-> sc, statuses |-> {}, projectId |-> 0,
                    role |-> principal.role,
                    rows |-> fetchVendors(principal.organizationId,
                               Coalesce(principal.branchOfficeId, NULL), sc)]
  /\ UNCHANGED <<sessionFrame, vendors, projects, agreements, nextRowId,
                 templates, vendorDocuments, agreementContent, newOffices,
                 storage, ui>>

\* The studio's loadProjects effect: the rows it asks for.
generatorProjects ==
  fetchProjects(principal.organizationId,
                IF isOrgAdmin THEN NULL
                ELSE Coalesce(principal.branchOfficeId, NULL),
                IF isOrgAdmin THEN "all" ELSE "branch", {"active"})

GeneratorLoadProjects ==
  /\ ui.view = "generator"
  /\ ui.pc = "idle"
  /\ listed = NoList
  /\ listed' = [kind |-> "projects",
                organizationId |-> principal.organizationId,
                branchOfficeId |-> principal.branchOfficeId,
                scope |-> IF isOrgAdmin THEN "all" ELSE "branch",
                statuses |-> {"active"}, projectId |-> 0,
                role |-> principal.role, rows |-> generatorProjects]
  /\ UNCHANGED <<sessionFrame, vendors, projects, agreements, nextRowId,
                 templates, vendorDocuments, agreementContent, newOffices,
                 storage, ui>>

\* App.refreshAgreements of the signed-in member: the rows the dashboard
\* and the studio's "open agreement" work from.
sessionAgreements ==
  fetchAgreementsForOrganization(principal.organizationId,
    refreshAgreementsFilter(principal.role, principal.branchOfficeId), 0)

AppRefreshAgreements ==
  /\ ui.view = DefaultView
  /\ ui.pc = "idle"
  /\ listed = NoList
  /\ listed' = [kind |-> "agreements",
                organizationId |-> principal.organizationId,
                branchOfficeId |-> principal.branchOfficeId,
                scope |-> NULL, statuses |-> {}, projectId |-> 0,
                role |-> principal.role, rows |-> sessionAgreements]
  /\ UNCHANGED <<sessionFrame, vendors, projects, agreements, nextRowId,
                 templates, vendorDocuments, agreementContent, newOffices,
                 storage, ui>>

\* The clause text the studio's editor holds.
SectionDrafts == {"clauses A"}

\* The content columns of an agreement the studio has not opened from a
\* stored one: tags [type], version 1, no comments, no audit entries.
NewContent(sections) ==
  [sections |-> sections, tags |-> <<"NDA">>, version |-> 1,
   comments |-> <<>>, auditLog |-> <<>>]

\* The Agreement object of the studio's handleSave for the stored agreement
\* it opened (initialData) or none (id 0), the project picked (0: none) and
\* the clauses in the editor.
agreementPayload(initialData, selectedProjectId, sections) ==
  [id |-> IF initialData.id # 0 THEN initialData.id ELSE nextRowId,
   branchOfficeId |->
     Coalesce(principal.branchOfficeId, initialData.branch_office_id),
   projectId |-> IF selectedProjectId # 0 THEN selectedProjectId
                 ELSE initialData.project_id,
   content |-> IF initialData.id # 0
               THEN [initialData.content EXCEPT !.sections = sections]
               ELSE NewContent(sections)]

\* What the studio holds when it was opened for a new agreement.
NoAgreement ==
  [id |-> 0, branch_office_id |-> NULL, project_id |-> 0,
   content |-> NewContent("")]

\* A stored agreement as the Agreement object handed to the studio.
rowToAgreement(r) ==
  [id |-> r.id, branch_office_id |-> r.branch_office_id,
   project_id |-> r.project_id, content |-> agreementContent[r.id]]

\* The upsert answering a write to an existing id with a conflict: the
\* stored row is kept.
upsertAgreementInsertOnly(payload, organizationId) ==
  IF \E r \in agreements : r.id = payload.id
  THEN UNCHANGED <<agreements, nextRowId, agreementContent>>
  ELSE /\ upsertAgreementForOrganization(payload.id, organizationId,
                                         payload.branchOfficeId,
                                         payload.projectId)
       /\ agreementContent' =
            [id \in DOMAIN agreementContent \cup {payload.id} |->
               IF id = payload.id THEN payload.content
               ELSE agreementContent[id]]

\* upsertAgreementForOrganization with the content columns of the payload.
upsertAgreement(payload, organizationId) ==
  /\ upsertAgreementForOrganization(payload.id, organizationId,
                                    payload.branchOfficeId, payload.projectId)
  /\ agreementContent' =
       [id \in DOMAIN agreementContent \cup {payload.id} |->
          IF id = payload.id THEN payload.content ELSE agreementContent[id]]

\* The studio's handleSave through App.handleSaveAgreement: a new agreement
\* or one opened from the session's list, a project of the studio's list or
\* none; afterwards the app navigates to the dashboard.
HandleSaveAgreement ==
  /\ ui.view = "generator"
  /\ ui.pc = "idle"
  /\ listed = NoList
  /\ \E initialData \in {NoAgreement} \cup
                        {rowToAgreement(r) : r \in Range(sessionAgreements)} :
     \E selectedProjectId \in {0} \cup {p.id : p \in Range(generatorProjects)} :
     \E sections \in SectionDrafts :
       /\ initialData.id = 0 => RowCount < MaxRows
       /\ upsertAgreement(
            agreementPayload(initialData, selectedProjectId, sections),
            principal.organizationId)
  /\ ui' = MountedView(DefaultView)
  /\ UNCHANGED <<sessionFrame, vendors, projects, listed, templates,
                 vendorDocuments, newOffices, storage>>

\* ----------------------------------------------------- TemplateBuilder
\* fetchTemplates({ organizationId, branchOfficeId }): the default case of
\* the branch-scope rule.
fetchTemplates(organizationId, branchOfficeId) ==
  LET base == {t \in templates : t.organization_id = organizationId}
  IN  IF Truthy(branchOfficeId)
      THEN {t \in base : t.branch_office_id = branchOfficeId
                         \/ t.branch_office_id = NULL}
      ELSE base

\* saveTemplate(payload): the row is written under the payload's id.
saveTemplate(payload) ==
  templates' = {t \in templates : t.id # payload.id} \cup {payload}

\* activeTemplateId and templateMeta.visibility: nothing loaded (the
\* initial 'organization'), a template started with the New button, or a
\* loaded template with its stored visibility.
TemplateFormStates ==
  {[activeTemplateId |-> 0, visibility |-> "organization"],
   [activeTemplateId |-> 0,
    visibility |-> IF principal.role = "branch_admin" THEN "branch"
                   ELSE "organization"]}
  \cup
  {[activeTemplateId |-> t.id, visibility |-> t.visibility] :
     t \in fetchTemplates(principal.organizationId, principal.branchOfficeId)}

\* handleSave with the visibility of the form used for every role.
effectiveVisibilityFromForm(form) == form.visibility

\* handleSave: effectiveVisibility
effectiveVisibility(form) ==
  IF isOrgAdmin THEN form.visibility ELSE "branch"

\* handleSave: branchTarget
branchTarget(form) ==
  IF effectiveVisibility(form) = "branch"
  THEN Coalesce(principal.branchOfficeId, NULL)
  ELSE NULL

\* TemplateBuilder.handleSave; the Save button is rendered for canEdit.
SaveTemplateWith(form, filled) ==
  /\ ui.view = "templates"
  /\ ui.pc = "idle"
  /\ listed = NoList
  /\ principal.role \in {"org_admin", "branch_admin"}
  /\ IF ~filled
       THEN /\ ui' = [ui EXCEPT !.error = MsgTemplateName]
            /\ UNCHANGED templates
       ELSE IF effectiveVisibility(form) = "branch" /\ ~Truthy(branchTarget(form))
       THEN /\ ui' = [ui EXCEPT !.error = MsgTemplateBranch]
            /\ UNCHANGED templates
       ELSE /\ form.activeTemplateId = 0 => RowCount < MaxRows
            /\ saveTemplate(
                 [id |-> IF form.activeTemplateId # 0 THEN form.activeTemplateId
                         ELSE Cardinality(templates) + 1,
                  organization_id |-> principal.organizationId,
                  branch_office_id |-> branchTarget(form),
                  visibility |-> effectiveVisibility(form)])
            /\ ui' = [ui EXCEPT !.error = NULL]
  /\ UNCHANGED <<sessionFrame, scopeVars, vendorDocuments, agreementContent,
                 newOffices, storage>>

HandleSaveTemplate ==
  \E form \in TemplateFormStates : \E filled \in BOOLEAN : SaveTemplateWith(form, filled)

\* ------------------------------------------- OfficeManager, new office
\* handleCreate, for a form whose identifier and location are filled or
\* not.
CreateOfficeWith(filled) ==
  /\ ui.view = "offices"
  /\ ui.pc = "idle"
  /\ listed = NoList
  /\ IF ~filled
       THEN /\ ui' = [ui EXCEPT !.error = MsgOfficeRequired]
            /\ UNCHANGED newOffices
       ELSE /\ Cardinality(newOffices) < MaxOffices
            /\ newOffices' = newOffices \cup
                 {[organization_id |-> principal.organizationId,
                   identifier |-> Cardinality(newOffices) + 1]}
            /\ ui' = [ui EXCEPT !.error = NULL]
  /\ UNCHANGED <<sessionFrame, scopeVars, templates, vendorDocuments,
                 agreementContent, storage>>

HandleCreateOffice ==
  \E filled \in BOOLEAN : CreateOfficeWith(filled)

\* ------------------------------------------------------ specification
\* Two organizations with their admins signed up; any member of either can
\* be the one signed in.
StoreWithTwoOrganizations ==
  /\ authUsers = {[id |-> "u1", email |-> AdminEmail],
                  [id |-> "u2", email |-> "admin@other"]}
  /\ organizations = {[id |-> "o1", user_id |-> "u1"],
                      [id |-> "o2", user_id |-> "u2"]}
  /\ members = {[id |-> 1, user_id |-> "u1", organization_id |-> "o1",
                 role |-> "org_admin", branch_office_id |-> NULL,
                 department |-> NULL],
                [id |-> 2, user_id |-> "u2", organization_id |-> "o2",
                 role |-> "org_admin", branch_office_id |-> NULL,
                 department |-> NULL]}
  /\ invites = {}
  /\ nextMemberId = 3
  /\ clock = 1
  /\ failures = 0

\* The session changes hands while no list is held.
SwitchFormSession ==
  /\ listed = NoList
  /\ SwitchSession

InitForms ==
  /\ ScopeTablesEmpty
  /\ StoreWithTwoOrganizations
  /\ dupSignUp = "error"
  /\ screens = [s \in Screens |-> ClosedScreen]
  /\ ClientAbsent
  /\ templates = {}
  /\ vendorDocuments = <<>>
  /\ agreementContent = <<>>
  /\ newOffices = {}
  /\ outbox = {}
  /\ storage = {}
  /\ principal \in StoredPrincipals
  /\ ui = MountedView(DefaultView)

NextForms ==
  \/ SwitchFormSession
  \/ NavigateTo
  \/ HandleCreateVendor
  \/ VendorManagerLoad
  \/ HandleCreateProject
  \/ ProjectManagerLoad
  \/ HandleQuickVendorSave
  \/ HandleQuickProjectSave
  \/ GeneratorLoadVendors
  \/ GeneratorLoadProjects
  \/ AppRefreshAgreements
  \/ HandleSaveAgreement
  \/ HandleSaveTemplate
  \/ ReleaseList

SpecForms == InitForms /\ [][NextForms]_vars

\* ================================================================
\* VendorManager: document upload
\* ================================================================
\* const MAX_DOCUMENTS = 3
MAX_DOCUMENTS == 3

MsgDocumentCap == "You can upload up to 3 files per vendor."

\* Two browser tabs of the organization's admin show the vendor directory.
UploadTabs == {"tab1", "tab2"}

\* The vendor the tabs work on.
UploadVendorId == 1

\* VendorManager state of a tab: the vendor's documents as the tab last
\* received them, the handler that ran last with the size of the batch it
\* was given, and the handler in flight (files still to upload, the
\* existingDocs array it builds).
UploadView(documents) ==
  [view |-> "vendors", pc |-> "idle", documents |-> documents,
   event |-> "loadVendors", batch |-> 0, docError |-> NULL,
   remaining |-> 0, existingDocs |-> <<>>]

\* An update that adds the given documents to the stored list.
updateVendorDocumentsAppending(id, documents) ==
  vendorDocuments' = [vendorDocuments EXCEPT ![id] = @ \o documents]

\* updateVendorDocuments(id, documents)
updateVendorDocuments(id, documents) ==
  vendorDocuments' = [vendorDocuments EXCEPT ![id] = documents]

\* uploadVendorDocument: the function stores the file and answers its url.
uploadVendorDocument ==
  storage' = storage \cup {Cardinality(storage) + 1}

\* Files the tabs have accepted and not uploaded yet.
PendingUploads ==
  LET tabs == {t \in UploadTabs : ui[t].pc = "uploading"}
      RECURSIVE Sum(_)
      Sum(S) == IF S = {} THEN 0
                ELSE LET t == CHOOSE x \in S : TRUE
                     IN  ui[t].remaining + Sum(S \ {t})
  IN  Sum(tabs)

\* loadVendors: the tab receives the stored row again.
UploadLoadVendors(t) ==
  /\ ui[t].pc = "idle"
  /\ ui' = [ui EXCEPT ![t] = UploadView(vendorDocuments[UploadVendorId])]
  /\ UNCHANGED <<sessionFrame, scopeVars, templates, vendorDocuments,
                 agreementContent, newOffices, storage>>

\* The cap test with the count of attached documents alone.
exceedsCapExistingOnly(existing, batch) == existing >= MAX_DOCUMENTS

\* vendor.documents.length + files.length > MAX_DOCUMENTS
exceedsCap(existing, batch) == existing + batch > MAX_DOCUMENTS

\* handleUploadDocuments up to the first upload, for a batch of n files.
HandleUploadDocuments(t) ==
  /\ ui[t].pc = "idle"
  /\ \E n \in 1..MaxBatch :
       IF exceedsCap(Len(ui[t].documents), n)
       THEN ui' = [ui EXCEPT ![t].event = "handleUploadDocuments",
                             ![t].batch = n,
                             ![t].docError = MsgDocumentCap]
       ELSE /\ Cardinality(storage) + PendingUploads + n <= MaxObjects
            /\ ui' = [ui EXCEPT ![t].event = "handleUploadDocuments",
                                ![t].batch = n, ![t].docError = NULL,
                                ![t].pc = "uploading", ![t].remaining = n,
                                ![t].existingDocs = ui[t].documents]
  /\ UNCHANGED <<sessionFrame, scopeVars, templates, vendorDocuments,
                 agreementContent, newOffices, storage>>

\* A loop whose failed upload still attaches the documents uploaded so far.
UploadNextFileKeepsUploaded(t) ==
  /\ ui[t].pc = "uploading"
  /\ ui[t].remaining > 0
  /\ \/ /\ uploadVendorDocument
        /\ ui' = [ui EXCEPT
             ![t].remaining = @ - 1,
             ![t].existingDocs = Append(@, Cardinality(storage) + 1)]
        /\ UNCHANGED <<failures, vendorDocuments>>
     \/ /\ Fail
        /\ vendorDocuments' =
             [vendorDocuments EXCEPT ![UploadVendorId] = ui[t].existingDocs]
        /\ ui' = [ui EXCEPT ![t].pc = "idle", ![t].remaining = 0,
                            ![t].existingDocs = <<>>,
                            ![t].docError = MsgBackend]
        /\ UNCHANGED storage
  /\ UNCHANGED <<scopeVars, screens, clientVars, outbox, principal,
                 templates, agreementContent, newOffices,
                 authUsers, organizations, members, invites, nextMemberId,
                 clock, dupSignUp>>

\* One pass of the loop: uploadVendorDocument, existingDocs.push(doc); a
\* failed upload ends the handler in its catch.
UploadNextFile(t) ==
  /\ ui[t].pc = "uploading"
  /\ ui[t].remaining > 0
  /\ \/ /\ uploadVendorDocument
        /\ ui' = [ui EXCEPT
             ![t].remaining = @ - 1,
             ![t].existingDocs = Append(@, Cardinality(storage) + 1)]
        /\ UNCHANGED failures
     \/ /\ Fail
        /\ ui' = [ui EXCEPT ![t].pc = "idle", ![t].remaining = 0,
                            ![t].existingDocs = <<>>,
                            ![t].docError = MsgBackend]
        /\ UNCHANGED storage
  /\ UNCHANGED <<scopeVars, screens, clientVars, outbox, principal,
                 templates, vendorDocuments, agreementContent, newOffices,
                 authUsers, organizations, members, invites, nextMemberId,
                 clock, dupSignUp>>

\* After the loop: updateVendorDocuments and the row it answers replaces
\* the tab's copy.
UploadCommit(t) ==
  /\ ui[t].pc = "uploading"
  /\ ui[t].remaining = 0
  /\ \/ /\ updateVendorDocuments(UploadVendorId, ui[t].existingDocs)
        /\ ui' = [ui EXCEPT ![t].pc = "idle",
                            ![t].documents = ui[t].existingDocs,
                            ![t].existingDocs = <<>>]
        /\ UNCHANGED failures
     \/ /\ Fail
        /\ ui' = [ui EXCEPT ![t].pc = "idle", ![t].existingDocs = <<>>,
                            ![t].docError = MsgBackend]
        /\ UNCHANGED vendorDocuments
  /\ UNCHANGED <<scopeVars, screens, clientVars, outbox, principal,
                 templates, agreementContent, newOffices, storage,
                 authUsers, organizations, members, invites, nextMemberId,
                 clock, dupSignUp>>

\* handleRemoveDocument: the tab's copy of the list without the document
\* is written as the whole list, and the row the update answers replaces
\* the tab's copy.
HandleRemoveDocument(t) ==
  /\ ui[t].pc = "idle"
  /\ \E docId \in {ui[t].documents[i] : i \in DOMAIN ui[t].documents} :
       LET updatedList == SelectSeq(ui[t].documents,
                                    LAMBDA doc : doc # docId)
       IN  \/ /\ updateVendorDocuments(UploadVendorId, updatedList)
              /\ ui' = [ui EXCEPT ![t].event = "handleRemoveDocument",
                                  ![t].batch = 0, ![t].docError = NULL,
                                  ![t].documents = updatedList]
              /\ UNCHANGED failures
           \/ /\ Fail
              /\ ui' = [ui EXCEPT ![t].event = "handleRemoveDocument",
                                  ![t].batch = 0,
                                  ![t].docError = MsgBackend]
              /\ UNCHANGED vendorDocuments
  /\ UNCHANGED <<scopeVars, screens, clientVars, outbox, principal,
                 templates, agreementContent, newOffices, storage,
                 authUsers, organizations, members, invites, nextMemberId,
                 clock, dupSignUp>>

\* The organization's admin has created one organization-wide vendor and
\* opened the vendor directory in two tabs.
InitUpload ==
  /\ vendors = {[id |-> UploadVendorId, created_at |-> 1,
                 organization_id |-> "o1", branch_office_id |-> NULL]}
  /\ projects = {}
  /\ agreements = {}
  /\ nextRowId = 2
  /\ listed = NoList
  /\ StoreWithOrganization
  /\ dupSignUp = "error"
  /\ screens = [s \in Screens |-> ClosedScreen]
  /\ ClientAbsent
  /\ templates = {}
  /\ vendorDocuments = [id \in {UploadVendorId} |-> <<>>]
  /\ agreementContent = <<>>
  /\ newOffices = {}
  /\ outbox = {}
  /\ storage = {}
  /\ principal = [organizationId |-> "o1", role |-> "org_admin",
                  branchOfficeId |-> NULL]
  /\ ui = [t \in UploadTabs |-> UploadView(<<>>)]

NextUpload ==
  \E t \in UploadTabs :
    \/ UploadLoadVendors(t)
    \/ HandleUploadDocuments(t)
    \/ UploadNextFile(t)
    \/ UploadCommit(t)
    \/ HandleRemoveDocument(t)

SpecUpload == InitUpload /\ [][NextUpload]_vars

\* ----------------------------------------------------------------
\* C13: a batch that would take the vendor's documents, as the vendor
\* directory holds them, above the cap of 3 is rejected as a whole: the
\* handler uploads nothing, does not call updateVendorDocuments, sets the
\* error message, and the vendor keeps its document list.
UploadSubmitted(t) ==
  /\ ui[t].pc = "idle"
  /\ ui'[t] # ui[t]
  /\ ui'[t].event = "handleUploadDocuments"
  /\ ui'[t].documents = ui[t].documents

C13_OversizedBatchRejectedWhole ==
  [][\A t \in UploadTabs :
       (UploadSubmitted(t)
        /\ Len(ui[t].documents) + ui'[t].batch > MAX_DOCUMENTS)
       => /\ storage' = storage
          /\ vendorDocuments' = vendorDocuments
          /\ ui'[t].pc = "idle"
          /\ ui'[t].docError = MsgDocumentCap
          /\ ui'[t].documents = ui[t].documents]_vars

C13_Witness ==
  \E t \in UploadTabs :
    /\ ui[t].pc = "idle"
    /\ ui[t].event = "handleUploadDocuments"
    /\ ui[t].docError = MsgDocumentCap
    /\ Len(ui[t].documents) = 2
    /\ ui[t].batch = 2
    /\ Len(vendorDocuments[UploadVendorId]) = 2
    /\ Cardinality(storage) = 2

\* ----------------------------------------------------------------
\* Rows a step writes: inserted, or rewritten by an upsert.
WrittenScopedRows ==
  (vendors' \ vendors) \cup (projects' \ projects)
    \cup (agreements' \ agreements)

WrittenTemplates == templates' \ templates

\* The signed-in member is a branch admin or branch user with a branch.
BranchMember ==
  /\ principal.role \in {"branch_admin", "branch_user"}
  /\ Truthy(principal.branchOfficeId)

\* C14: a vendor, project or agreement written while a branch admin or
\* branch user with branch B is signed in carries branch_office_id = B,
\* whatever the scope and branch fields of the form hold.
C14_BranchMemberWritesOwnBranch ==
  [][BranchMember =>
       \A r \in WrittenScopedRows :
         r.branch_office_id = principal.branchOfficeId]_vars

C14_Witness ==
  /\ principal = [organizationId |-> "o1", role |-> "branch_admin",
                  branchOfficeId |-> "b1"]
  /\ ui.view = "projects"
  /\ ui.error = NULL
  /\ \E p \in projects : p.branch_office_id = "b1"
  /\ \E v \in vendors : v.branch_office_id = "b1"
  /\ \A r \in vendors \cup projects : r.branch_office_id = "b1"

\* C15: no vendor, project, template or agreement row with
\* branch_office_id = null is written while a branch admin or branch user
\* is signed in; a row written by an org admin has branch_office_id = null
\* or a branch of the organization's branch list.
C15_OnlyOrgAdminsWriteOrganizationWide ==
  [][/\ principal.role \in {"branch_admin", "branch_user"} =>
          \A r \in WrittenScopedRows \cup WrittenTemplates :
            r.branch_office_id # NULL
     /\ isOrgAdmin =>
          \A r \in WrittenScopedRows \cup WrittenTemplates :
            \/ r.branch_office_id = NULL
            \/ r.branch_office_id \in BranchesOf(principal.organizationId)]_vars

\* C16: a template saved while a branch admin is signed in is stored with
\* visibility 'branch' and the admin's own branch, whatever visibility the
\* template form holds.
C16_BranchAdminTemplateIsBranchScoped ==
  [][principal.role = "branch_admin" =>
       \A t \in WrittenTemplates :
         /\ t.visibility = "branch"
         /\ Truthy(principal.branchOfficeId)
         /\ t.branch_office_id = principal.branchOfficeId
         /\ t.organization_id = principal.organizationId]_vars

C16_Witness ==
  /\ principal = [organizationId |-> "o1", role |-> "branch_admin",
                  branchOfficeId |-> "b2"]
  /\ ui.view = "templates"
  /\ ui.error = NULL
  /\ templates = {[id |-> 1, organization_id |-> "o1",
                   branch_office_id |-> "b2", visibility |-> "branch"]}

\* ================================================================
\* Validation: the create forms and the invite page in one browser
\* ================================================================
\* The hash route shows the invite page instead of the application.
AppShown == \A s \in Screens : screens[s].pc = "closed"

\* The page of the invite link.
InvitePage == "s1"

\* The organizations of StoreWithTwoOrganizations, and a pending invite of
\* the first one's admin to a branch admin for office b1.
StoreWithPendingInvite ==
  /\ authUsers = {[id |-> "u1", email |-> AdminEmail],
                  [id |-> "u2", email |-> "admin@other"]}
  /\ organizations = {[id |-> "o1", user_id |-> "u1"],
                      [id |-> "o2", user_id |-> "u2"]}
  /\ members = {[id |-> 1, user_id |-> "u1", organization_id |-> "o1",
                 role |-> "org_admin", branch_office_id |-> NULL,
                 department |-> NULL],
                [id |-> 2, user_id |-> "u2", organization_id |-> "o2",
                 role |-> "org_admin", branch_office_id |-> NULL,
                 department |-> NULL]}
  /\ invites = {[id |-> "i1", invite_token |-> "t1",
                 organization_id |-> "o1", branch_office_id |-> "b1",
                 email |-> BranchAdminEmail, role |-> "branch_admin",
                 department |-> NULL, status |-> "pending",
                 user_id |-> NULL, accepted_at |-> 0]}
  /\ nextMemberId = 3
  /\ clock = 1
  /\ failures = 0

InitValidation ==
  /\ ScopeTablesEmpty
  /\ StoreWithPendingInvite
  /\ dupSignUp = "error"
  /\ screens = [s \in Screens |-> ClosedScreen]
  /\ ClientAbsent
  /\ templates = {}
  /\ vendorDocuments = <<>>
  /\ agreementContent = <<>>
  /\ newOffices = {}
  /\ outbox = {}
  /\ storage = {}
  /\ principal \in StoredPrincipals
  /\ ui = Dashboard

\* The link is opened from the dashboard of the signed-in application.
OpenInvitePage ==
  /\ ui = Dashboard
  /\ listed = NoList
  /\ OpenInvite(InvitePage)

NextValidation ==
  \/ AppShown /\ NavigateTo
  \/ AppShown /\ HandleCreateVendor
  \/ AppShown /\ HandleCreateProject
  \/ AppShown /\ HandleQuickVendorSave
  \/ AppShown /\ HandleQuickProjectSave
  \/ AppShown /\ HandleSaveTemplate
  \/ AppShown /\ HandleCreateOffice
  \/ OpenInvitePage
  \/ LoadInvite(InvitePage)
  \/ HandleAccept(InvitePage)
  \/ AcceptSignUp(InvitePage)
  \/ AcceptEnsureMembership(InvitePage)
  \/ AcceptMarkInvite(InvitePage)
  \/ CloseInvite(InvitePage)

SpecValidation == InitValidation /\ [][NextValidation]_vars

\* ----------------------------------------------------------------
\* The rows, principals and objects the system stores.
storedState ==
  <<vendors, projects, agreements, templates, newOffices, vendorDocuments,
    agreementContent, storage, authUsers, organizations, members, invites>>

\* The form asks for a branch and neither it nor the session has one.
NoBranchAvailable(form) ==
  /\ form.scope = "branch"
  /\ ~Truthy(form.branchOfficeId)
  /\ ~Truthy(principal.branchOfficeId)

\* The handler ended with this inline error and wrote nothing.
RejectedWith(message) ==
  /\ ui'.error = message
  /\ ui'.pc = "idle"
  /\ UNCHANGED storedState

\* C17: a submission that fails validation (vendor without name or TIN,
\* branch-scoped vendor or project with no branch available, project or
\* template without name, office without identifier or location, invite
\* password shorter than 6 characters or not matching its confirmation)
\* sets the inline error and leaves every stored table unchanged.
C17_ValidationFailureWritesNothing ==
  [][/\ \A form \in FormStates :
          /\ CreateVendorWith(form, FALSE) => RejectedWith(MsgVendorRequired)
          /\ (CreateVendorWith(form, TRUE) /\ NoBranchAvailable(form))
               => RejectedWith(MsgVendorBranch)
          /\ QuickVendorSaveWith(form, FALSE) => RejectedWith(MsgVendorRequired)
          /\ (QuickVendorSaveWith(form, TRUE) /\ NoBranchAvailable(form))
               => RejectedWith(MsgQuickVendorBranch)
          /\ \A status \in ProjectStatusInputs :
               /\ CreateProjectWith(form, FALSE, status)
                    => RejectedWith(MsgProjectName)
               /\ (CreateProjectWith(form, TRUE, status) /\ NoBranchAvailable(form))
                    => RejectedWith(MsgProjectBranch)
          /\ QuickProjectSaveWith(form, FALSE) => RejectedWith(MsgProjectName)
          /\ (QuickProjectSaveWith(form, TRUE) /\ NoBranchAvailable(form))
               => RejectedWith(MsgQuickProjectBranch)
     /\ \A form \in TemplateFormStates :
          SaveTemplateWith(form, FALSE) => RejectedWith(MsgTemplateName)
     /\ CreateOfficeWith(FALSE) => RejectedWith(MsgOfficeRequired)
     /\ \A s \in Screens : \A len \in PasswordLengths : \A confirmed \in BOOLEAN :
          (HandleAcceptWith(s, len, confirmed)
           /\ (len < MinPasswordLength \/ ~confirmed))
          => /\ screens'[s].inviteError =
                  IF len < MinPasswordLength THEN MsgPasswordShort
                  ELSE MsgPasswordMismatch
             /\ screens'[s].pc = "idle"
             /\ ~screens'[s].accepting
             /\ UNCHANGED storedState]_vars

\* A rejected password on the invite page, after a branch-scoped quick
\* vendor was refused for want of a branch: nothing is stored beyond the
\* initial rows.
C17_Witness ==
  /\ screens[InvitePage].pc = "idle"
  /\ screens[InvitePage].inviteError \in {MsgPasswordShort, MsgPasswordMismatch}
  /\ screens[InvitePage].inviteDetails # NoInvite
  /\ ui.error = NULL
  /\ \A i \in invites : i.status = "pending"
  /\ Cardinality(authUsers) = 2
  /\ vendors = {}


\* ----------------------------------------------------------------
\* The rows of the four scoped tables.
ScopedRows == vendors \cup projects \cup agreements \cup templates

\* C18: every vendor, project, template and agreement row with a non-null
\* branch_office_id references a branch office of the row's own
\* organization, whatever org admins and branch members have created.
C18_BranchBelongsToRowOrganization ==
  \A r \in ScopedRows :
    Truthy(r.branch_office_id) => BranchOrg[r.branch_office_id] = r.organization_id

\* Branch-owned rows exist in both organizations, one of them a template.
C18_Witness ==
  /\ \E r \in ScopedRows : r.organization_id = "o1" /\ Truthy(r.branch_office_id)
  /\ \E r \in vendors \cup projects :
       r.organization_id = "o2" /\ Truthy(r.branch_office_id)
  /\ \E t \in templates : Truthy(t.branch_office_id)


\* ----------------------------------------------------------------
\* The list on screen was loaded for a branch admin without a branch.
ListedForLockedAdmin(l) ==
  l.role = "branch_admin" /\ ~Truthy(l.branchOfficeId)

\* C19: a branch admin whose membership has no branch is shown no vendor,
\* project or agreement owned by a branch, and creates no vendor, project,
\* template or agreement.
C19_LockedBranchAdminIsBlocked ==
  [][/\ ListedForLockedAdmin(listed')
          => \A i \in DOMAIN listed'.rows :
               ~Truthy(listed'.rows[i].branch_office_id)
     /\ branchLocked => WrittenScopedRows = {} /\ WrittenTemplates = {}]_vars


\* ================================================================
\* Two sessions of the same member (two browser tabs) editing the same
\* stored agreement in the drafting studio.
EditSessions == {"e1", "e2"}

\* The clause texts an editor can hold.
EditDrafts == SectionDrafts \cup {"clauses B"}

EditAgreementId == 1

EditProjectId == 2

\* A session showing the dashboard: no agreement is open; saved is the
\* agreement the last upsert of this session returned.
EditorClosed ==
  [view |-> DefaultView, initialData |-> NoAgreement, sections |-> "",
   selectedProjectId |-> 0, saveError |-> NULL, saved |-> NoAgreement]

\* App.handleOpenAgreement: the studio mounts with the agreement as
\* initialData and copies its sections and project into its own state.
HandleOpenAgreement(e) ==
  /\ ui[e].view = DefaultView
  /\ \E r \in Range(sessionAgreements) :
       ui' = [ui EXCEPT ![e] =
                [@ EXCEPT !.view = "generator",
                          !.initialData = rowToAgreement(r),
                          !.sections = agreementContent[r.id].sections,
                          !.selectedProjectId = r.project_id,
                          !.saveError = NULL]]
  /\ UNCHANGED <<sessionFrame, scopeVars, templates, vendorDocuments,
                 agreementContent, newOffices, storage>>

\* Typing in the clause editor: setSections.
EditSections(e) ==
  /\ ui[e].view = "generator"
  /\ \E text \in EditDrafts \ {ui[e].sections} :
       ui' = [ui EXCEPT ![e].sections = text]
  /\ UNCHANGED <<sessionFrame, scopeVars, templates, vendorDocuments,
                 agreementContent, newOffices, storage>>

\* handleProjectSelect: a project of the studio's list or "" (Unassigned).
EditSelectProject(e) ==
  /\ ui[e].view = "generator"
  /\ \E id \in ({0} \cup {p.id : p \in Range(generatorProjects)})
                 \ {ui[e].selectedProjectId} :
       ui' = [ui EXCEPT ![e].selectedProjectId = id]
  /\ UNCHANGED <<sessionFrame, scopeVars, templates, vendorDocuments,
                 agreementContent, newOffices, storage>>

\* The Agreement object the studio of session e would save now.
editorPayload(e) ==
  agreementPayload(ui[e].initialData, ui[e].selectedProjectId, ui[e].sections)

\* The payload as the upsert returns it (rowToAgreement of the stored row).
savedAgreement(payload) ==
  [id |-> payload.id,
   branch_office_id |-> Coalesce(payload.branchOfficeId, NULL),
   project_id |-> payload.projectId, content |-> payload.content]

\* The studio's handleSave and App.handleSaveAgreement of session e: the
\* upsert, the session's list takes the returned agreement, the studio
\* closes and the app shows the dashboard.
EditSave(e) ==
  /\ ui[e].view = "generator"
  /\ upsertAgreement(editorPayload(e), principal.organizationId)
  /\ ui' = [ui EXCEPT ![e] =
              [EditorClosed EXCEPT !.saved = savedAgreement(editorPayload(e))]]
  /\ UNCHANGED <<sessionFrame, vendors, projects, listed, templates,
                 vendorDocuments, newOffices, storage>>

\* A member of o1 with a stored agreement and an active project, both of
\* the member's branch (none for an org admin), and two sessions on the
\* dashboard.
InitEdit ==
  /\ StoreWithTwoOrganizations
  /\ principal \in {p \in StoredPrincipals :
                      /\ p.organizationId = "o1"
                      /\ p.role \in {"org_admin", "branch_admin"}
                      /\ p.branchOfficeId \in {NULL, "b1"}
                      /\ p.role = "branch_admin" => Truthy(p.branchOfficeId)}
  /\ vendors = {}
  /\ agreements = {[id |-> EditAgreementId, created_at |-> EditAgreementId,
                    organization_id |-> "o1",
                    branch_office_id |-> principal.branchOfficeId,
                    project_id |-> 0]}
  /\ projects = {[id |-> EditProjectId, created_at |-> EditProjectId,
                  organization_id |-> "o1",
                  branch_office_id |-> principal.branchOfficeId,
                  status |-> "active"]}
  /\ nextRowId = 3
  /\ listed = NoList
  /\ dupSignUp = "error"
  /\ screens = [s \in Screens |-> ClosedScreen]
  /\ ClientAbsent
  /\ templates = {}
  /\ vendorDocuments = <<>>
  /\ agreementContent =
       [id \in {EditAgreementId} |-> NewContent("clauses A")]
  /\ newOffices = {}
  /\ outbox = {}
  /\ storage = {}
  /\ ui = [e \in EditSessions |-> EditorClosed]

NextEdit ==
  \E e \in EditSessions :
    \/ HandleOpenAgreement(e)
    \/ EditSections(e)
    \/ EditSelectProject(e)
    \/ EditSave(e)

SpecEdit == InitEdit /\ [][NextEdit]_vars

\* The stored agreement, as an Agreement object.
StoredAgreement(id) ==
  rowToAgreement(CHOOSE r \in agreements : r.id = id)

\* C20: concurrent edits of one agreement from two sessions are
\* last-write-wins: every save of an open studio goes through without an
\* error or conflict whatever was stored in the meantime, and the stored row
\* afterwards equals that save's payload in branch_office_id, project_id,
\* sections, tags, version, comments and audit log.
C20_LastWriteWins ==
  [][\A e \in EditSessions :
       (ui[e].view = "generator" /\ ui'[e].view = DefaultView)
       => /\ ui'[e].saveError = NULL
          /\ \E r \in agreements' : r.id = editorPayload(e).id
          /\ LET stored == CHOOSE r \in agreements' : r.id = editorPayload(e).id
             IN  /\ stored.branch_office_id =
                      Coalesce(editorPayload(e).branchOfficeId, NULL)
                 /\ stored.project_id = editorPayload(e).projectId
                 /\ agreementContent'[stored.id] = editorPayload(e).content
                 /\ ui'[e].saved = savedAgreement(editorPayload(e))]_vars

\* Both sessions saved the agreement they had opened at the same time; the
\* stored row is the second session's write and what the first session
\* wrote (its clauses and its project) is gone.
C20_Witness ==
  /\ \A e \in EditSessions : ui[e].saved.id = EditAgreementId
  /\ StoredAgreement(EditAgreementId) = ui["e2"].saved
  /\ ui["e1"].saved.content.sections # ui["e2"].saved.content.sections
  /\ ui["e1"].saved.project_id = EditProjectId
  /\ ui["e2"].saved.project_id = 0


\* ----------------------------------------------------------------
\* The rows of a list on screen, as a set.
ListedRows == {listed.rows[i] : i \in DOMAIN listed.rows}

\* C21: for a branch admin or branch user with own branch B, the project
\* list of the project manager and of the drafting studio holds exactly the
\* organization's projects (of the statuses asked for) whose branch is B or
\* null, and none of another branch.
C21_MemberProjectListIsOwnBranchPlusOrgWide ==
  (/\ listed.kind = "projects"
   /\ listed.role \in {"branch_admin", "branch_user"}
   /\ Truthy(listed.branchOfficeId))
  => ListedRows =
       {r \in projects :
          /\ r.organization_id = listed.organizationId
          /\ r.branch_office_id \in {listed.branchOfficeId, NULL}
          /\ listed.statuses # {} => r.status \in listed.statuses}


\* ================================================================
\* The route guard of AppShell. Here ui is the shell's routing state:
\* view, the location hash as its path segments ("#/offices" is
\* <<"offices">>, "" is <<>>, "#/invite/t1" is <<"invite", "t1">>),
\* inviteToken, whether a hashchange event waits for its listener, and
\* whether the hash effect waits to run (after mount and after a render
\* that changed enforceViewAccess).
ROUTABLE_VIEWS ==
  {"dashboard", "generator", "templates", "analytics", "settings",
   "offices", "vendors", "projects", "departments"}

\* The hashes a tab can be given: none, a routable view, the invite page's
\* '#/signin', an invite link, an invite link without token.
RouteHashes ==
  {<<>>, <<"signin">>, <<"invite", "t1">>, <<"invite", "">>}
  \cup {<<v>> : v \in ROUTABLE_VIEWS}

buildHashFromView(view) == <<view>>

parseHashToView(hash) ==
  IF hash = <<>> THEN DefaultView
  ELSE IF Len(hash) = 1 /\ hash[1] \in ROUTABLE_VIEWS THEN hash[1]
  ELSE DefaultView

\* rawHash.startsWith('#/invite/')
IsInviteHash(hash) == Len(hash) >= 2 /\ hash[1] = "invite"

\* Nobody signed in: the auth context holds no role.
SignedOut == [organizationId |-> NULL, role |-> NULL, branchOfficeId |-> NULL]

\* What the auth context can hold while the shell is mounted.
RoutePrincipals ==
  {SignedOut} \cup {p \in SessionPrincipals : p.organizationId = "o1"}


\* handleHashChange applied to the routing state u: an invite link sets the
\* token and returns; any other hash clears the token, sets the view the
\* role may see and rewrites the hash when that is not the view asked for.
handleHashChange(u) ==
  IF IsInviteHash(u.hash)
  THEN [u EXCEPT !.inviteToken = IF u.hash[2] = "" THEN NULL ELSE u.hash[2]]
  ELSE LET parsedView == parseHashToView(u.hash)
           safeView == enforceViewAccess(parsedView)
       IN  [u EXCEPT !.inviteToken = NULL,
                     !.view = safeView,
                     !.hash = IF safeView # parsedView
                              THEN buildHashFromView(safeView) ELSE u.hash]

\* ensureDefaultHash
ensureDefaultHash(u) ==
  IF u.hash = <<>> THEN [u EXCEPT !.hash = buildHashFromView(DefaultView)]
  ELSE u

\* The hash effect: it runs after mount and after every render in which
\* enforceViewAccess changed; assigning a new hash queues a hashchange event.
RunHashEffect ==
  /\ ui.effectPending
  /\ LET u == handleHashChange(ensureDefaultHash(ui))
     IN  ui' = [u EXCEPT !.effectPending = FALSE,
                         !.hashEvent = ui.hashEvent \/ u.hash # ui.hash]
  /\ UNCHANGED <<sessionFrame, scopeVars, templates, vendorDocuments,
                 agreementContent, newOffices, storage>>

\* The hashchange listener.
HandleHashEvent ==
  /\ ui.hashEvent
  /\ ~ui.effectPending
  /\ LET u == handleHashChange(ui)
     IN  ui' = [u EXCEPT !.hashEvent = u.hash # ui.hash]
  /\ UNCHANGED <<sessionFrame, scopeVars, templates, vendorDocuments,
                 agreementContent, newOffices, storage>>

\* The user follows a link or edits the address bar.
SetHash ==
  /\ ~ui.hashEvent
  /\ ~ui.effectPending
  /\ \E hash \in RouteHashes \ {ui.hash} :
       ui' = [ui EXCEPT !.hash = hash, !.hashEvent = TRUE]
  /\ UNCHANGED <<sessionFrame, scopeVars, templates, vendorDocuments,
                 agreementContent, newOffices, storage>>

\* navigateTo(targetView), called by the sidebar and the views while the
\* shell shows the app.
RouteNavigateToWith(targetView) ==
  /\ ~ui.hashEvent
  /\ ~ui.effectPending
  /\ ui.inviteToken = NULL
  /\ principal.role # NULL
  /\ LET nextView == enforceViewAccess(targetView)
     IN  ui' = [ui EXCEPT !.view = nextView,
                          !.inviteToken = NULL,
                          !.hash = buildHashFromView(nextView),
                          !.hashEvent = (ui.hash # buildHashFromView(nextView))]
  /\ UNCHANGED <<sessionFrame, scopeVars, templates, vendorDocuments,
                 agreementContent, newOffices, storage>>

RouteNavigateTo == \E targetView \in ROUTABLE_VIEWS : RouteNavigateToWith(targetView)

\* The auth context hands the shell another role (sign-in, sign-out, a
\* hydration that completed): the shell renders again, and the hash effect
\* is queued when isOrgAdmin or isBranchAdmin changed, since then
\* enforceViewAccess is a new callback.
RoleChange ==
  /\ \E p \in RoutePrincipals \ {principal} :
       /\ principal' = p
       /\ ui' = [ui EXCEPT !.effectPending =
                   \/ ui.effectPending
                   \/ (p.role = "org_admin") # (principal.role = "org_admin")
                   \/ (p.role = "branch_admin") # (principal.role = "branch_admin")]
  /\ UNCHANGED <<scopeVars, storeVars, screens, clientVars, templates,
                 vendorDocuments, agreementContent, newOffices, outbox, storage>>

\* What renderContent mounts for the view and the role.
renderContent ==
  CASE ui.view = "generator" -> "AgreementGenerator"
    [] ui.view = "templates" -> "TemplateBuilder"
    [] ui.view = "analytics" -> "AnalyticsView"
    [] ui.view = "settings" -> "SettingsView"
    [] ui.view = "offices" /\ isOrgAdmin -> "OfficeManager"
    [] ui.view = "departments" /\ principal.role = "branch_admin"
         -> "BranchUserManager"
    [] ui.view = "vendors" /\ principal.role \in {"org_admin", "branch_admin"}
         -> "VendorManager"
    [] ui.view = "projects" /\ principal.role \in {"org_admin", "branch_admin"}
         -> "ProjectManager"
    [] OTHER -> "DocumentManager"

\* The shell as mounted in a tab opened with any hash, nobody signed in.
InitRoute ==
  /\ ScopeTablesEmpty
  /\ StoreWithTwoOrganizations
  /\ dupSignUp = "error"
  /\ screens = [s \in Screens |-> ClosedScreen]
  /\ ClientAbsent
  /\ templates = {}
  /\ vendorDocuments = <<>>
  /\ agreementContent = <<>>
  /\ newOffices = {}
  /\ outbox = {}
  /\ storage = {}
  /\ principal = SignedOut
  /\ \E hash \in RouteHashes :
       ui = [view |-> DefaultView, hash |-> hash, inviteToken |-> NULL,
             hashEvent |-> FALSE, effectPending |-> TRUE]

NextRoute ==
  \/ RunHashEffect
  \/ HandleHashEvent
  \/ SetHash
  \/ RouteNavigateTo
  \/ RoleChange

SpecRoute == InitRoute /\ [][NextRoute]_vars

\* The role may see the view.
RolePermits(role, view) ==
  /\ view = "offices" => role = "org_admin"
  /\ view = "departments" => role = "branch_admin"
  /\ view \in {"vendors", "projects"} => role \in {"org_admin", "branch_admin"}

\* C22 as stated: in every reachable state the current view is one the
\* role may see.
C22_ViewAlwaysPermitted == RolePermits(principal.role, ui.view)

\* C22, amended: whenever the hash effect and the hashchange events have
\* run and the hash is not an invite link, the view is one the role may see
\* and the hash names it; a hashchange or navigation request for a view the
\* role may not see ends at 'dashboard' with the hash '#/dashboard'; and in
\* every state, also between a role change and the hash effect,
\* renderContent mounts a manager only for a role that may see it.
C22_RouteGuardOnceEffectRan ==
  [][/\ (~ui'.effectPending /\ ~ui'.hashEvent /\ ~IsInviteHash(ui'.hash))
          => /\ RolePermits(principal'.role, ui'.view)
             /\ parseHashToView(ui'.hash) = ui'.view
             /\ ui'.inviteToken = NULL
     /\ ((ui.hashEvent \/ ui.effectPending) /\ principal' = principal
         /\ ui' # ui /\ ~IsInviteHash(ui.hash)
         /\ ~RolePermits(principal.role, parseHashToView(ui.hash)))
          => ui'.view = DefaultView /\ ui'.hash = <<DefaultView>>
     /\ \A targetView \in ROUTABLE_VIEWS :
          (RouteNavigateToWith(targetView)
           /\ ~RolePermits(principal.role, targetView))
          => ui'.view = DefaultView /\ ui'.hash = <<DefaultView>>
     /\ renderContent' = "OfficeManager" => principal'.role = "org_admin"
     /\ renderContent' = "BranchUserManager" => principal'.role = "branch_admin"
     /\ renderContent' \in {"VendorManager", "ProjectManager"}
          => principal'.role \in {"org_admin", "branch_admin"}]_vars

\* A branch user is signed in, the hash effect has run, and the shell is on
\* the dashboard with '#/dashboard' and a hashchange event queued, as after
\* the guard rewrote the hash.
C22_Witness ==
  /\ principal.role = "branch_user"
  /\ ui.view = DefaultView
  /\ ui.hash = <<DefaultView>>
  /\ ui.hashEvent
  /\ ~ui.effectPending
  /\ ui.inviteToken = NULL


\* ----------------------------------------------------------------
\* No hydration, runInit, signUp or profile completion is in flight.
ProviderSettled ==
  /\ initPc = "done"
  /\ \A h \in HydrationSlots : hydrations[h].pc = "idle"
  /\ signUpProc = IdleProc
  /\ profileProc = IdleProc

\* C23: once every in-flight hydration has completed, the auth context's
\* organization, memberRole and branchOfficeId are null when there is no
\* session, and otherwise whatever the context holds of them is the
\* membership of the user signed in, never that of a user who signed out.
C23_LateHydrationLeavesContextOfCurrentUser ==
  ProviderSettled =>
    /\ ctx.session = NULL =>
         /\ ctx.organization = NULL
         /\ ctx.memberRole = NULL
         /\ ctx.branchOfficeId = NULL
    /\ (ctx.session # NULL /\ ctx.organization # NULL) =>
         \E m \in members :
           /\ m.user_id = ctx.session
           /\ m.organization_id = ctx.organization
           /\ m.role = ctx.memberRole
           /\ m.branch_office_id = ctx.branchOfficeId


\* ----------------------------------------------------------------
\* C24: a membership is never changed in place: once a row exists for
\* (user, organization), every later state holds a row for that pair with
\* the same role, branch_office_id and department.
C24_MembershipNeverChangedInPlace ==
  [][\A m \in members :
       \A n \in members' :
         (n.user_id = m.user_id /\ n.organization_id = m.organization_id)
         => /\ n.role = m.role
            /\ n.branch_office_id = m.branch_office_id
            /\ n.department = m.department]_vars


\* The emails of the people who already are members of the organization.
MemberEmails == {AdminEmail, BranchAdminEmail}

\* OfficeManager.handleCreateInvite with the email of a member: the form
\* takes any email.
HandleReinvite == \E e \in MemberEmails : HandleCreateInviteTo(e)

\* The organization with its accepted branch admin; the org admin invites
\* members again and the invited follow the links.
NextReinvite ==
  \/ HandleReinvite
  \/ \E s \in Screens :
       \/ OpenInvite(s)
       \/ LoadInvite(s)
       \/ HandleAccept(s)
       \/ AcceptSignUp(s)
       \/ AcceptEnsureMembership(s)
       \/ AcceptMarkInvite(s)
       \/ CloseInvite(s)

SpecReinvite == InitInvite /\ [][NextReinvite]_vars


\* ----------------------------------------------------------------
\* C25: there is at most one organizations row per owning user_id, whatever
\* signUp and completeOrganizationProfile calls were made, a completion
\* after a failed organization insert and repeated completions included.
C25_OneOrganizationPerOwner ==
  \A u \in authUsers : Cardinality(OrganizationsOf(u.id)) <= 1

\* After a failed call, a profile completion of the user who signed up is
\* past its upsert; she owns one organization, and it already has her
\* membership, written by signUp, an earlier completion or the self-healing
\* of a concurrent resolution.
C25_Witness ==
  /\ profileProc.pc = "ensureMembership"
  /\ \E u \in authUsers :
       /\ u.email \in SignUpEmails
       /\ profileProc.userId = u.id
       /\ Cardinality(OrganizationsOf(u.id)) = 1
       /\ \E m \in members : /\ m.user_id = u.id
                             /\ m.organization_id = profileProc.organizationId
  /\ failures > 0


\* ----------------------------------------------------------------
\* C26: an invite with status accepted has a user_id, and that user has a
\* membership in the invite's organization with the invite's role and
\* branch.
C26_AcceptedInviteHasItsMembership ==
  \A i \in invites :
    i.status = "accepted" =>
      /\ i.user_id # NULL
      /\ \E m \in members :
           /\ m.user_id = i.user_id
           /\ m.organization_id = i.organization_id
           /\ m.role = i.role
           /\ m.branch_office_id = i.branch_office_id

\* ----------------------------------------------------------------
\* C27: every vendor row holds at most 3 documents in every reachable
\* state, whatever the interleaving of uploads and removals from tabs
\* that test the cap against their own copy of the vendor and then write
\* the whole list.
C27_StoredDocumentsWithinCap ==
  \A id \in DOMAIN vendorDocuments :
    Len(vendorDocuments[id]) <= MAX_DOCUMENTS

\* A tab removed a document from its copy while the other tab's upload was
\* in flight; the upload then wrote its own list of 3 over the removal, so
\* the removing tab's copy is stale and the row is full.
C27_Witness ==
  \E t \in UploadTabs, u \in UploadTabs :
    /\ t # u
    /\ ui[t].event = "handleUploadDocuments"
    /\ ui[t].pc = "idle"
    /\ ui[t].docError = NULL
    /\ ui[t].documents = vendorDocuments[UploadVendorId]
    /\ ui[u].event = "handleRemoveDocument"
    /\ ui[u].docError = NULL
    /\ ui[u].documents # vendorDocuments[UploadVendorId]
    /\ Len(vendorDocuments[UploadVendorId]) = MAX_DOCUMENTS

\* ----------------------------------------------------------------
\* C28: every user id has at most one organization_members row in total,
\* across all organizations, after any sequence of sign-up, acceptance,
\* resolution and profile completion, a completion submitted by an invited
\* member during or after a failed resolution included; the single-row
\* lookup by user_id therefore never matches several rows.
C28_OneMembershipPerUser ==
  \A m1 \in members : \A m2 \in members :
    m1.user_id = m2.user_id => m1 = m2

\* ----------------------------------------------------------------
\* C29: whatever scope and branchOfficeId are given (a branch of another
\* organization included), the lists fetchVendors, fetchProjects and
\* fetchAgreementsForOrganization return hold only rows whose
\* organization_id is the requested organization; and
\* fetchAgreementsForOrganization with an empty organization id returns
\* the empty list.
C29_ListsStayInsideRequestedOrganization ==
  /\ \A i \in DOMAIN listed.rows :
       listed.rows[i].organization_id = listed.organizationId
  /\ (listed.kind = "agreements" /\ listed.organizationId = "")
       => listed.rows = <<>>

\* A default-scope project list for a branch (the or-filter) was read in
\* one organization while another organization holds an organization-wide
\* project, which the or-filter's second alternative would match.
C29_Witness ==
  /\ listed.kind = "projects"
  /\ listed.scope = NULL
  /\ listed.branchOfficeId # NULL
  /\ listed.rows # <<>>
  /\ \E r \in projects :
       /\ r.organization_id # listed.organizationId
       /\ r.branch_office_id = NULL

\* ----------------------------------------------------------------
\* C30: when an upload of an accepted batch fails, the handler ends
\* without calling updateVendorDocuments: the vendor's stored list is as
\* before, none of the batch's documents (those already in storage
\* included) is in it, the tab shows an error message and its uploading
\* flag is cleared.
UploadFailed(t) ==
  /\ ui[t].pc = "uploading"
  /\ ui[t].remaining > 0
  /\ ui'[t].pc = "idle"

BatchDocuments(t) == Range(ui[t].existingDocs) \ Range(ui[t].documents)

C30_FailedUploadAttachesNothing ==
  [][\A t \in UploadTabs :
       UploadFailed(t)
       => /\ vendorDocuments' = vendorDocuments
          /\ BatchDocuments(t) \cap
               Range(vendorDocuments'[UploadVendorId]) = {}
          /\ BatchDocuments(t) \subseteq storage'
          /\ ui'[t].docError # NULL
          /\ ui'[t].documents = ui[t].documents]_vars

\* The second upload of a batch of two failed: the first file is in
\* storage, the vendor has no document, the tab is idle with the error.
C30_Witness ==
  \E t \in UploadTabs :
    /\ ui[t].event = "handleUploadDocuments"
    /\ ui[t].batch = 2
    /\ ui[t].pc = "idle"
    /\ ui[t].docError = MsgBackend
    /\ Cardinality(storage) = 1
    /\ vendorDocuments[UploadVendorId] = <<>>

=============================================================================
